---------------------------- MODULE Spec2Model ----------------------------
(***************************************************************************)
(* Request/response audit logging of the Link Organizer backend:           *)
(*   middleware/request_logger.py  RequestLoggerMiddleware                  *)
(*   services/error_service.py     ErrorService                             *)
(*   models/error.py               the `errors` table                       *)
(*   exceptions.py                 the application's exception classes      *)
(*                                                                         *)
(* Python strings that the code inspects (lower(), upper(), `in`, f"..")   *)
(* are sequences of one-character strings.  An optional value is None or   *)
(* Some(x), so that an absent dict and an empty dict stay distinct.        *)
(***************************************************************************)
EXTENDS Integers, Sequences, FiniteSets, TLC

(***************************************************************************)
(* Bounds of the model.                                                    *)
(***************************************************************************)
\* number of requests served, one request context each
NumReq == 1
\* the wall clock reads 0..MaxClock
MaxClock == 2
\* clock readings per millisecond (time.time() is finer than duration_ms)
TicksPerMs == 2
\* clock readings per day, scaled down (timedelta(days=n) is n * TicksPerDay)
TicksPerDay == 1
\* direct ErrorService calls made by SpecService
MaxCalls == 3

\* requests to the links and categories API under way at the same time
NumClients == 2

(***************************************************************************)
(* Optional values.                                                        *)
(***************************************************************************)
None == [tag |-> "None"]

Some(x) == [tag |-> "Some", val |-> x]

IsNone(o) == o.tag = "None"

Val(o) == o.val

(***************************************************************************)
(* Strings.                                                                *)
(***************************************************************************)
UpperLetters ==
    <<"A","B","C","D","E","F","G","H","I","J","K","L","M",
      "N","O","P","Q","R","S","T","U","V","W","X","Y","Z">>

LowerLetters ==
    <<"a","b","c","d","e","f","g","h","i","j","k","l","m",
      "n","o","p","q","r","s","t","u","v","w","x","y","z">>

\* str.lower() on one character
LowerChar(c) ==
    IF \E i \in 1..26 : UpperLetters[i] = c
    THEN LowerLetters[CHOOSE i \in 1..26 : UpperLetters[i] = c]
    ELSE c

\* str.upper() on one character
UpperChar(c) ==
    IF \E i \in 1..26 : LowerLetters[i] = c
    THEN UpperLetters[CHOOSE i \in 1..26 : LowerLetters[i] = c]
    ELSE c

\* str.lower()
Lower(s) == [i \in 1..Len(s) |-> LowerChar(s[i])]

\* str.upper()
Upper(s) == [i \in 1..Len(s) |-> UpperChar(s[i])]

\* `p in s` for strings
Contains(s, p) ==
    \E i \in 1..(Len(s) - Len(p) + 1) : SubSeq(s, i, i + Len(p) - 1) = p

DigitChars == <<"0","1","2","3","4","5","6","7","8","9">>

RECURSIVE Decimal(_)
\* str(n) for n >= 0
Decimal(n) ==
    IF n < 10 THEN <<DigitChars[n + 1]>>
    ELSE Decimal(n \div 10) \o <<DigitChars[(n % 10) + 1]>>

\* int(x / d): Python's int() truncates towards zero
TruncDiv(x, d) == IF x >= 0 THEN x \div d ELSE -((-x) \div d)

(***************************************************************************)
(* exceptions.py and the built-in classes the code meets.                  *)
(***************************************************************************)
\* the direct base class of every exception class of the model
BaseOf ==
    [ ValidationError |-> "Exception",
      DatabaseError   |-> "Exception",
      ValueError      |-> "Exception",
      AttributeError  |-> "Exception",
      BadRequest      |-> "Exception",
      OperationalError |-> "Exception",
      TypeError       |-> "Exception",
      MarshmallowValidationError |-> "Exception",
      Exception       |-> "BaseException",
      SystemExit      |-> "BaseException",
      BaseException   |-> "object" ]

RECURSIVE IsSubclass(_, _)
\* issubclass(cls, base): what `except base:` catches
IsSubclass(cls, base) ==
    \/ cls = base
    \/ /\ cls \in DOMAIN BaseOf
       /\ IsSubclass(BaseOf[cls], base)

\* type(e).__name__ of the classes that can reach teardown_appcontext
ClassName ==
    [ SystemExit |-> <<"S","y","s","t","e","m","E","x","i","t">>,
      Exception  |-> <<"E","x","c","e","p","t","i","o","n">> ]

(***************************************************************************)
(* String constants of the code.                                           *)
(***************************************************************************)
\* request_logger.py: skip_patterns
skip_patterns ==
    << <<"s","t","a","t","i","c">>,
       <<"h","e","a","l","t","h">>,
       <<"f","a","v","i","c","o","n">>,
       <<"r","o","b","o","t","s",".","t","x","t">> >>

\* error_service.py: the header names dropped by log_error
SensitiveHeaders ==
    { <<"a","u","t","h","o","r","i","z","a","t","i","o","n">>,
      <<"c","o","o","k","i","e">>,
      <<"x","-","a","p","i","-","k","e","y">> }

S_HTTPError == <<"H","T","T","P","E","r","r","o","r">>

S_UnknownError == <<"U","n","k","n","o","w","n"," ","e","r","r","o","r">>

S_HTTP_ == <<"H","T","T","P"," ">>

(***************************************************************************)
(* models/error.py: the rows of the `errors` table.  The columns           *)
(* request_params, client_ip, user_agent, session_id and user_id are       *)
(* passed through by the code untouched and are left out.                  *)
(***************************************************************************)
\* the primary key the database gives the next inserted row
NextId(rows) ==
    IF rows = {} THEN 1
    ELSE 1 + CHOOSE m \in {r.id : r \in rows} : \A r \in rows : r.id <= m

\* Error(...): the row built from log_error's arguments
ErrorRow(id, a, headers, t) ==
    [ id              |-> id,
      method          |-> Upper(a.method),
      endpoint        |-> a.endpoint,
      status_code     |-> a.status_code,
      request_data    |-> a.request_data,
      request_headers |-> headers,
      response_data   |-> a.response_data,
      error_message   |-> a.error_message,
      error_type      |-> a.error_type,
      request_time    |-> IF IsNone(a.request_time) THEN t ELSE Val(a.request_time),
      response_time   |-> a.response_time,
      duration_ms     |-> a.duration_ms ]

(***************************************************************************)
(* services/error_service.py                                               *)
(***************************************************************************)
\* SanitizeHeaders with the names compared as written (`k not in [...]`)
SanitizeHeaders_CaseSensitive(h) ==
    IF IsNone(h) \/ DOMAIN Val(h) = {}
    THEN None
    ELSE Some([k \in {x \in DOMAIN Val(h) : x \notin SensitiveHeaders} |-> Val(h)[k]])

\* the dict comprehension of log_error: `if request_headers:` is false for
\* None and for an empty dict
SanitizeHeaders(h) ==
    IF IsNone(h) \/ DOMAIN Val(h) = {}
    THEN None
    ELSE Some([k \in {x \in DOMAIN Val(h) : Lower(x) \notin SensitiveHeaders}
                 |-> Val(h)[k]])

\* MissingRequired without the status_code test
MissingRequired_NoStatus(a) ==
    \/ a.method = <<>>
    \/ a.endpoint = <<>>

\* `not method or not endpoint or not status_code`
MissingRequired(a) ==
    \/ a.method = <<>>
    \/ a.endpoint = <<>>
    \/ a.status_code = 0

\* the body of log_error's try block: the exception class it raises (None
\* when it reaches `return error_log`) and the row it added and committed
log_error_try(rows, a, t, dbOk) ==
    IF MissingRequired(a)
    THEN [exc |-> Some("ValidationError"), ret |-> None]
    ELSE IF ~dbOk
    THEN [exc |-> Some("OperationalError"), ret |-> None]
    ELSE [exc |-> None,
          ret |-> Some(ErrorRow(NextId(rows), a, SanitizeHeaders(a.request_headers), t))]

\* log_error writing its row over the newest row of the table
log_error_Overwrite(rows, a, t, dbOk) ==
    LET body == log_error_try(rows, a, t, dbOk)
    IN  IF IsNone(body.exc)
        THEN [rows |-> {r \in rows : r.id + 1 # Val(body.ret).id}
                          \cup {Val(body.ret)},
              exc |-> None, ret |-> body.ret]
        ELSE IF IsSubclass(Val(body.exc), "ValidationError")
        THEN [rows |-> rows, exc |-> body.exc, ret |-> None]
        ELSE IF IsSubclass(Val(body.exc), "Exception")
        THEN [rows |-> rows, exc |-> Some("DatabaseError"), ret |-> None]
        ELSE [rows |-> rows, exc |-> body.exc, ret |-> None]

\* ErrorService.log_error(**a) at clock reading t; dbOk is whether
\* db.session.add/commit succeed.  Result: the table afterwards, the exception
\* class raised (None when it returns) and the returned row.
log_error(rows, a, t, dbOk) ==
    LET body == log_error_try(rows, a, t, dbOk)
    IN  IF IsNone(body.exc)
        THEN [rows |-> rows \cup {Val(body.ret)}, exc |-> None, ret |-> body.ret]
        ELSE IF IsSubclass(Val(body.exc), "ValidationError")
        THEN [rows |-> rows, exc |-> body.exc, ret |-> None]
        ELSE IF IsSubclass(Val(body.exc), "Exception")
        THEN [rows |-> rows, exc |-> Some("DatabaseError"), ret |-> None]
        ELSE [rows |-> rows, exc |-> body.exc, ret |-> None]

\* delete_old_errors with `Error.request_time <= cutoff_date`
delete_old_errors_Inclusive(rows, days, t, dbOk) ==
    IF ~dbOk
    THEN [rows |-> rows, exc |-> Some("DatabaseError"), ret |-> None]
    ELSE LET cutoff_date == t - days * TicksPerDay
             old == {r \in rows : r.request_time <= cutoff_date}
         IN  [rows |-> rows \ old, exc |-> None, ret |-> Some(Cardinality(old))]

\* delete_old_errors without the rollback of its except clause
delete_old_errors_NoRollback(rows, days, t, dbOk) ==
    LET cutoff_date == t - days * TicksPerDay
        old == {r \in rows : r.request_time < cutoff_date}
    IN  IF ~dbOk
        THEN [rows |-> rows \ old, exc |-> Some("DatabaseError"), ret |-> None]
        ELSE [rows |-> rows \ old, exc |-> None, ret |-> Some(Cardinality(old))]

\* ErrorService.delete_old_errors(days) at clock reading t
delete_old_errors(rows, days, t, dbOk) ==
    IF ~dbOk
    THEN \* `except Exception`: rollback, raise DatabaseError
         [rows |-> rows, exc |-> Some("DatabaseError"), ret |-> None]
    ELSE LET cutoff_date == t - days * TicksPerDay
             old == {r \in rows : r.request_time < cutoff_date}
         IN  [rows |-> rows \ old, exc |-> None, ret |-> Some(Cardinality(old))]

\* ErrorService.get_error_by_id(error_id)
get_error_by_id(rows, error_id) ==
    IF \E r \in rows : r.id = error_id
    THEN Some(CHOOSE r \in rows : r.id = error_id)
    ELSE None

(***************************************************************************)
(* HTTP requests and responses as the middleware sees them.                *)
(***************************************************************************)
S_GET == <<"G","E","T">>

S_POST == <<"P","O","S","T">>

\* methods whose JSON body after_request reads
BodyMethods == {S_POST, <<"P","U","T">>, <<"P","A","T","C","H">>}

H_Cookie == <<"C","o","o","k","i","e">>

H_UserAgent == <<"U","s","e","r","-","A","g","e","n","t">>

\* request.endpoint is None when no route matched
Request(method, endpoint, path, is_json, json_ok, headers) ==
    [ method |-> method, endpoint |-> endpoint, path |-> path,
      is_json |-> is_json, json_ok |-> json_ok, headers |-> headers ]

\* GET /api/health, routed to the blueprint endpoint health.health_check
Q_health ==
    Request(S_GET,
            Some(<<"h","e","a","l","t","h",".","h","e","a","l","t","h","_",
                   "c","h","e","c","k">>),
            <<"/","a","p","i","/","h","e","a","l","t","h">>,
            FALSE, FALSE, [k \in {H_UserAgent} |-> "curl"])

\* GET /Favicon.ico, no route
Q_favicon ==
    Request(S_GET, None, <<"/","F","a","v","i","c","o","n",".","i","c","o">>,
            FALSE, FALSE, [k \in {} |-> "none"])

\* GET /api/links
Q_list ==
    Request(S_GET, Some(<<"l","i","n","k","s",".","g","e","t","_","l","i","n","k","s">>),
            <<"/","a","p","i","/","l","i","n","k","s">>,
            FALSE, FALSE, [k \in {H_Cookie, H_UserAgent} |-> "v"])

\* POST /api/links with Content-Type application/json; json_ok is whether
\* the body parses
Q_create(json_ok) ==
    Request(S_POST,
            Some(<<"l","i","n","k","s",".","c","r","e","a","t","e","_","l","i","n","k">>),
            <<"/","a","p","i","/","l","i","n","k","s">>,
            TRUE, json_ok, [k \in {H_UserAgent} |-> "v"])

Requests == {Q_health, Q_favicon, Q_list, Q_create(TRUE), Q_create(FALSE)}

\* a response body as JSON text: an object, an array, or text that does not
\* parse (the empty body included)
J_message == [t |-> "object", v |-> [message |-> <<"n","o","t"," ","f","o","u","n","d">>]]

J_nomessage == [t |-> "object", v |-> [error |-> <<"b","a","d">>]]

J_array == [t |-> "array"]

J_invalid == [t |-> "invalid"]

\* is_json is whether the response's mimetype is JSON
Response(status_code, is_json, body) ==
    [status_code |-> status_code, is_json |-> is_json, body |-> body]

Responses ==
    { Response(200, TRUE, J_nomessage),
      Response(404, TRUE, J_message),
      Response(400, TRUE, J_nomessage),
      Response(404, TRUE, J_array),
      Response(502, TRUE, J_invalid),
      Response(404, FALSE, J_invalid) }

(***************************************************************************)
(* middleware/request_logger.py                                            *)
(***************************************************************************)
\* `request.endpoint or request.path`
EndpointOf(q) == IF IsNone(q.endpoint) THEN q.path ELSE Val(q.endpoint)

\* RequestLoggerMiddleware._should_skip_logging
_should_skip_logging(endpoint) ==
    \E i \in 1..Len(skip_patterns) : Contains(Lower(endpoint), skip_patterns[i])

\* RequestLoggerMiddleware.before_request: what it stores on flask.g
before_request(t) ==
    [request_start_time |-> t, request_start_datetime |-> t]

\* int((time.time() - g.request_start_time) * 1000)
DurationMs(g, t) == TruncDiv(t - g.request_start_time, TicksPerMs)

\* f"HTTP {response.status_code}"
HttpStatusMessage(status_code) == S_HTTP_ \o Decimal(status_code)

\* ClassifyResponse with the fallback message as the default of .get
ClassifyResponse_WrongDefault(response) ==
    IF response.status_code < 400 \/ ~response.is_json
    THEN [response_data |-> None, error_message |-> None, error_type |-> None]
    ELSE IF response.body.t = "invalid"
    THEN [response_data |-> None,
          error_message |-> Some(HttpStatusMessage(response.status_code)),
          error_type |-> Some(S_HTTPError)]
    ELSE [response_data |-> Some(response.body),
          error_message |-> Some(IF response.body.t = "object"
                                    /\ "message" \in DOMAIN response.body.v
                                 THEN response.body.v.message
                                 ELSE HttpStatusMessage(response.status_code)),
          error_type |-> Some(S_HTTPError)]

\* after_request, `if response.status_code >= 400:` block: the values of
\* response_data, error_message and error_type it leaves
ClassifyResponse(response) ==
    IF response.status_code < 400 \/ ~response.is_json
    THEN [response_data |-> None, error_message |-> None, error_type |-> None]
    ELSE IF response.body.t = "invalid"
    THEN \* response.get_json() raises: the bare except
         [response_data |-> None,
          error_message |-> Some(HttpStatusMessage(response.status_code)),
          error_type |-> Some(S_HTTPError)]
    ELSE IF response.body.t # "object"
    THEN \* response_data is assigned, then .get raises AttributeError
         [response_data |-> Some(response.body),
          error_message |-> Some(HttpStatusMessage(response.status_code)),
          error_type |-> Some(S_HTTPError)]
    ELSE [response_data |-> Some(response.body),
          error_message |-> Some(IF "message" \in DOMAIN response.body.v
                                 THEN response.body.v.message
                                 ELSE S_UnknownError),
          error_type |-> Some(S_HTTPError)]

\* RequestLoggerMiddleware._log_request_async: `caught` is the exception its
\* `except Exception` swallowed
_log_request_async(rows, a, t, dbOk) ==
    LET r == log_error(rows, a, t, dbOk)
    IN  IF ~IsNone(r.exc) /\ IsSubclass(Val(r.exc), "Exception")
        THEN [rows |-> r.rows, exc |-> None, ret |-> None, caught |-> r.exc]
        ELSE [rows |-> r.rows, exc |-> r.exc, ret |-> r.ret, caught |-> None]

\* the keyword arguments after_request passes to _log_request_async
AfterRequestArgs(g, q, response, t) ==
    LET c == ClassifyResponse(response)
    IN  [ method          |-> q.method,
          endpoint        |-> EndpointOf(q),
          status_code     |-> response.status_code,
          request_data    |-> IF q.method \in BodyMethods /\ q.is_json
                              THEN Some("json") ELSE None,
          request_headers |-> IF DOMAIN q.headers = {} THEN None ELSE Some(q.headers),
          response_data   |-> c.response_data,
          error_message   |-> c.error_message,
          error_type      |-> c.error_type,
          request_time    |-> Some(g.request_start_datetime),
          response_time   |-> Some(t),
          duration_ms     |-> Some(DurationMs(g, t)) ]

\* the try block of after_request; g is None when flask.g holds no start time
after_request_try(g, q, response, rows, t, dbOk) ==
    IF IsNone(g)
    THEN [rows |-> rows, exc |-> Some("AttributeError"), ret |-> None, caught |-> None]
    ELSE IF _should_skip_logging(EndpointOf(q))
    THEN [rows |-> rows, exc |-> None, ret |-> None, caught |-> None]
    ELSE IF q.method \in BodyMethods /\ q.is_json /\ ~q.json_ok
    THEN \* request.get_json() raises BadRequest
         [rows |-> rows, exc |-> Some("BadRequest"), ret |-> None, caught |-> None]
    ELSE _log_request_async(rows, AfterRequestArgs(Val(g), q, response, t), t, dbOk)

\* after_request without its try/except
after_request_Unguarded(g, q, response, rows, t, dbOk) ==
    LET b == after_request_try(g, q, response, rows, t, dbOk)
    IN  IF IsNone(b.exc)
        THEN [rows |-> b.rows, row |-> b.ret, ret |-> Some(response),
              exc |-> None, caught |-> b.caught]
        ELSE [rows |-> b.rows, row |-> None, ret |-> None,
              exc |-> b.exc, caught |-> None]

\* RequestLoggerMiddleware.after_request: the table afterwards, the row it
\* wrote, the response it returns and the exception that leaves it
after_request(g, q, response, rows, t, dbOk) ==
    LET b == after_request_try(g, q, response, rows, t, dbOk)
    IN  IF IsNone(b.exc)
        THEN [rows |-> b.rows, row |-> b.ret, ret |-> Some(response),
              exc |-> None, caught |-> b.caught]
        ELSE IF IsSubclass(Val(b.exc), "Exception")
        THEN \* `except Exception as e:` then `return response`
             [rows |-> b.rows, row |-> None, ret |-> Some(response),
              exc |-> None, caught |-> b.exc]
        ELSE [rows |-> b.rows, row |-> None, ret |-> None,
              exc |-> b.exc, caught |-> None]

\* TeardownArgs with the error_type of after_request
TeardownArgs_HTTPError(g, q, exception, t) ==
    [ method          |-> q.method,
      endpoint        |-> EndpointOf(q),
      status_code     |-> 500,
      request_data    |-> IF q.is_json THEN Some("json") ELSE None,
      request_headers |-> IF DOMAIN q.headers = {} THEN None ELSE Some(q.headers),
      response_data   |-> None,
      error_message   |-> Some(exception.msg),
      error_type      |-> Some(S_HTTPError),
      request_time    |-> Some(g.request_start_datetime),
      response_time   |-> Some(t),
      duration_ms     |-> Some(DurationMs(g, t)) ]

\* the keyword arguments teardown_appcontext passes to _log_request_async
TeardownArgs(g, q, exception, t) ==
    [ method          |-> q.method,
      endpoint        |-> EndpointOf(q),
      status_code     |-> 500,
      request_data    |-> IF q.is_json THEN Some("json") ELSE None,
      request_headers |-> IF DOMAIN q.headers = {} THEN None ELSE Some(q.headers),
      response_data   |-> None,
      error_message   |-> Some(exception.msg),
      error_type      |-> Some(ClassName[exception.cls]),
      request_time    |-> Some(g.request_start_datetime),
      response_time   |-> Some(t),
      duration_ms     |-> Some(DurationMs(g, t)) ]

\* the try block of teardown_appcontext; q is None outside a request
teardown_try(g, q, exception, rows, t, dbOk) ==
    IF IsNone(g)
    THEN [rows |-> rows, exc |-> Some("AttributeError"), ret |-> None, caught |-> None]
    ELSE IF Val(q).is_json /\ ~Val(q).json_ok
    THEN [rows |-> rows, exc |-> Some("BadRequest"), ret |-> None, caught |-> None]
    ELSE _log_request_async(rows, TeardownArgs(Val(g), Val(q), exception, t), t, dbOk)

\* RequestLoggerMiddleware.teardown_appcontext(exception): the bare except
\* lets nothing out
teardown_appcontext(g, q, exception, rows, t, dbOk) ==
    IF IsNone(exception)
    THEN [rows |-> rows, row |-> None, exc |-> None, caught |-> None]
    ELSE LET b == teardown_try(g, q, Val(exception), rows, t, dbOk)
         IN  IF IsNone(b.exc)
             THEN [rows |-> b.rows, row |-> b.ret, exc |-> None, caught |-> b.caught]
             ELSE [rows |-> b.rows, row |-> None, exc |-> None, caught |-> b.exc]

(***************************************************************************)
(* app.py: the error handlers every response of a failed view goes through *)
(***************************************************************************)
\* create_app.handle_exception: the 500 response built for an exception
\* raised by a view
handle_exception(error) ==
    Response(500, TRUE,
             [t |-> "object",
              v |-> [message |-> <<"A","n"," ","u","n","e","x","p","e","c","t","e","d",
                                   " ","e","r","r","o","r">>]])

\* an exception that is no subclass of Exception, which no handler of
\* create_app catches (the server's worker is told to exit during a request)
Aborts == { [cls |-> "SystemExit", msg |-> <<"1">>] }

\* an exception raised inside init_db's application context
StartupErrors == { [cls |-> "Exception", msg |-> <<"d","b">>] }

\* api/health.py health_check: 200 with the health data
HealthResponse == Response(200, TRUE, [t |-> "object", v |-> [message |-> <<"u","p">>]])

\* what the view behind a request can answer: health_check answers itself;
\* the other views are collaborators that may answer anything
ViewResponses(q) ==
    IF q = Q_health THEN {HealthResponse} ELSE Responses

(***************************************************************************)
(* State.                                                                  *)
(***************************************************************************)
VARIABLES
    store,   \* the rows of the errors table
    now,     \* the reading of the wall clock
    ctx,     \* per request context: the request, flask.g, and its progress
    last,    \* the last direct call of ErrorService and its outcome
    calls,   \* number of direct calls made
    categories,  \* the rows of the categories table
    links,       \* the rows of the links table
    job          \* per client: its request to the links and categories API

vars == <<store, now, ctx, last, calls, categories, links, job>>

\* the variables of the links and categories API
catalog == <<categories, links, job>>

Req == 1..NumReq

IdleCtx ==
    [ phase     |-> "idle",
      request   |-> None,     \* the request being served
      g         |-> None,     \* flask.g of this request's app context
      response  |-> None,     \* the response the view (or error handler) gave
      exception |-> None,     \* the exception that ended request handling
      returned  |-> None,     \* what after_request returned
      escaped   |-> None,     \* exception that left a middleware hook
      caught    |-> None,     \* exception a middleware hook swallowed
      written   |-> 0,        \* rows committed by the hooks for this request
      row       |-> None ]    \* the last such row

\* Category(name=...): a row of the categories table
Category(id, name) == [id |-> id, name |-> name]

\* app.py init_db: the default categories a started server holds
init_db == {Category(1, "Work"), Category(2, "Personal")}

\* the clients whose requests may be under way at the same time
Clients == 1..NumClients

\* a client with no request under way
IdleJob ==
    [ pc        |-> "idle",
      call      |-> None,     \* the operation requested and its arguments
      g         |-> None,     \* flask.g of this request's app context
      pending   |-> <<>>,     \* changes db.session holds and has not committed
      response  |-> None,     \* the view's response
      exception |-> None ]    \* the exception that ended request handling

Init ==
    /\ store = {}
    /\ now = 0
    /\ ctx = [r \in Req |-> IdleCtx]
    /\ last = [op |-> "none"]
    /\ calls = 0
    /\ categories = init_db
    /\ links = {}
    /\ job = [c \in Clients |-> IdleJob]

(***************************************************************************)
(* The clock.                                                              *)
(***************************************************************************)
\* time passes
Tick ==
    /\ now < MaxClock
    /\ now' = now + 1
    /\ UNCHANGED <<store, ctx, last, calls>>
    /\ UNCHANGED catalog

(***************************************************************************)
(* The life of one request: before_request, the view, after_request,       *)
(* teardown_appcontext.                                                    *)
(***************************************************************************)
\* flask.g and the request belong to one request context and the contexts
\* share only the table, so Spec serves the requests one after another
BeforeRequest(r) ==
    /\ ctx[r].phase = "idle"
    /\ \A o \in Req : o < r => ctx[o].phase = "done"
    /\ \E q \in Requests :
          ctx' = [ctx EXCEPT ![r] = [IdleCtx EXCEPT !.phase = "started",
                                                    !.request = Some(q),
                                                    !.g = Some(before_request(now))]]
    /\ UNCHANGED <<store, now, last, calls>>
    /\ UNCHANGED catalog

\* an application context that serves no request (init_db's
\* `with app.app_context():`) is left with an exception: flask.g holds no
\* start time when teardown_appcontext runs
AppContextExit(r) ==
    /\ ctx[r].phase = "idle"
    /\ \A o \in Req : o < r => ctx[o].phase = "done"
    /\ \E e \in StartupErrors, dbOk \in BOOLEAN :
          LET out == teardown_appcontext(None, None, Some(e), store, now, dbOk)
          IN  /\ store' = out.rows
              /\ ctx' = [ctx EXCEPT ![r] = [IdleCtx EXCEPT !.escaped = out.exc,
                                                          !.caught = out.caught]]
    /\ UNCHANGED <<now, last, calls>>
    /\ UNCHANGED catalog

\* the view returns a response
ViewReturns(r) ==
    /\ ctx[r].phase = "started"
    /\ \E resp \in ViewResponses(Val(ctx[r].request)) :
          ctx' = [ctx EXCEPT ![r] = [@ EXCEPT !.phase = "responded",
                                              !.response = Some(resp)]]
    /\ UNCHANGED <<store, now, last, calls>>
    /\ UNCHANGED catalog

\* the view raises an Exception: errorhandler(Exception) turns it into a
\* response, and teardown sees no exception
ViewRaises(r) ==
    /\ ctx[r].phase = "started"
    /\ Val(ctx[r].request) # Q_health
    /\ ctx' = [ctx EXCEPT ![r] = [@ EXCEPT !.phase = "responded",
                                           !.response = Some(handle_exception("Exception"))]]
    /\ UNCHANGED <<store, now, last, calls>>
    /\ UNCHANGED catalog

\* request handling is ended by an exception no handler catches: no
\* response is finalized and teardown_appcontext gets the exception; the
\* request context is gone after teardown
ViewAborts(r) ==
    /\ ctx[r].phase = "started"
    /\ \E e \in Aborts :
          ctx' = [ctx EXCEPT ![r] = [@ EXCEPT !.phase = "aborted",
                                              !.exception = Some(e)]]
    /\ UNCHANGED <<store, now, last, calls>>
    /\ UNCHANGED catalog

AfterRequest(r) ==
    /\ ctx[r].phase = "responded"
    /\ \E dbOk \in BOOLEAN :
          LET c == ctx[r]
              out == after_request(c.g, Val(c.request), Val(c.response), store, now, dbOk)
          IN  /\ store' = out.rows
              /\ ctx' = [ctx EXCEPT ![r] =
                            [@ EXCEPT !.phase = "finalized",
                                      !.returned = out.ret,
                                      !.escaped = out.exc,
                                      !.caught = out.caught,
                                      !.written = @ + (IF IsNone(out.row) THEN 0 ELSE 1),
                                      !.row = IF IsNone(out.row) THEN @ ELSE out.row]]
    /\ UNCHANGED <<now, last, calls>>
    /\ UNCHANGED catalog

Teardown(r) ==
    /\ ctx[r].phase \in {"finalized", "aborted"}
    /\ \E dbOk \in BOOLEAN :
          LET c == ctx[r]
              out == teardown_appcontext(c.g, c.request, c.exception, store, now, dbOk)
          IN  /\ store' = out.rows
              /\ ctx' = [ctx EXCEPT ![r] =
                            [IdleCtx EXCEPT !.phase = "done",
                                            !.escaped = out.exc,
                                            !.caught = out.caught,
                                            !.written = c.written
                                                + (IF IsNone(out.row) THEN 0 ELSE 1)]]
    /\ UNCHANGED <<now, last, calls>>
    /\ UNCHANGED catalog

Next ==
    \/ Tick
    \/ \E r \in Req : AppContextExit(r)
    \/ \E r \in Req : BeforeRequest(r)
    \/ \E r \in Req : ViewReturns(r)
    \/ \E r \in Req : ViewRaises(r)
    \/ \E r \in Req : ViewAborts(r)
    \/ \E r \in Req : AfterRequest(r)
    \/ \E r \in Req : Teardown(r)

Spec == Init /\ [][Next]_vars

(***************************************************************************)
(* Direct calls of ErrorService, as the tests and the /api/errors routes   *)
(* make them.                                                              *)
(***************************************************************************)
H_Authorization == <<"A","u","t","h","o","r","i","z","a","t","i","o","n">>

H_COOKIE == <<"C","O","O","K","I","E">>

H_x_api_key == <<"x","-","a","p","i","-","k","e","y">>

H_ContentType == <<"C","o","n","t","e","n","t","-","T","y","p","e">>

\* the request_headers arguments tried: none, an empty dict, sensitive and
\* harmless names mixed, sensitive names only
HeaderInputs ==
    { None,
      Some([k \in {} |-> "v"]),
      Some([k \in {H_Authorization, H_ContentType} |-> "v"]),
      Some([k \in {H_COOKIE, H_x_api_key} |-> "v"]) }

\* log_error(method, endpoint, status_code, request_headers=headers)
LogArgs(method, endpoint, status_code, headers) ==
    [ method          |-> method,
      endpoint        |-> endpoint,
      status_code     |-> status_code,
      request_data    |-> None,
      request_headers |-> headers,
      response_data   |-> None,
      error_message   |-> None,
      error_type      |-> None,
      request_time    |-> None,
      response_time   |-> None,
      duration_ms     |-> None ]

S_get == <<"g","e","t">>

S_api_test == <<"/","a","p","i","/","t","e","s","t">>

\* the calls tried: complete ones with each headers argument, and one with
\* each required field missing
LogInputs ==
    {LogArgs(S_get, S_api_test, 200, h) : h \in HeaderInputs}
    \cup { LogArgs(<<>>, S_api_test, 200, None),
           LogArgs(S_get, <<>>, 200, None),
           LogArgs(S_get, S_api_test, 0, None),
           LogArgs(<<>>, <<>>, 0, None) }

\* the `days` arguments tried
DayInputs == -1..2

\* ErrorService.log_error(...) called directly
LogError ==
    /\ calls < MaxCalls
    /\ \E a \in LogInputs, dbOk \in BOOLEAN :
          LET out == log_error(store, a, now, dbOk)
          IN  /\ store' = out.rows
              /\ last' = [op |-> "log_error", args |-> a, at |-> now,
                          exc |-> out.exc, ret |-> out.ret]
    /\ calls' = calls + 1
    /\ UNCHANGED <<now, ctx>>
    /\ UNCHANGED catalog

\* ErrorService.delete_old_errors(days) called directly
DeleteOldErrors ==
    /\ calls < MaxCalls
    /\ \E days \in DayInputs, dbOk \in BOOLEAN :
          LET out == delete_old_errors(store, days, now, dbOk)
          IN  /\ store' = out.rows
              /\ last' = [op |-> "delete_old_errors", args |-> days, at |-> now,
                          exc |-> out.exc, ret |-> out.ret]
    /\ calls' = calls + 1
    /\ UNCHANGED <<now, ctx>>
    /\ UNCHANGED catalog

NextService ==
    \/ Tick
    \/ LogError
    \/ DeleteOldErrors

SpecService == Init /\ [][NextService]_vars

(***************************************************************************)
(* Properties.                                                             *)
(***************************************************************************)
\* the request of context r is skip-listed
SkipListed(r) ==
    /\ ~IsNone(ctx[r].request)
    /\ _should_skip_logging(EndpointOf(Val(ctx[r].request)))

\* C1: every request whose endpoint is not skip-listed has exactly one row
\* persisted for it when its teardown has run, whether it ended with a
\* response or with an exception.
C1_ExactlyOneRecord ==
    [][\A r \in Req :
         ( /\ ctx[r].phase \in {"finalized", "aborted"}
           /\ ctx'[r].phase = "done"
           /\ ~SkipListed(r) )
         => ctx'[r].written = 1]_vars

\* C2: whatever fails while the row is built or persisted, after_request
\* returns the response it was given, unchanged, and no exception leaves
\* after_request or teardown_appcontext.
C2_ResponseUntouched ==
    \A r \in Req :
        /\ IsNone(ctx[r].escaped)
        /\ ctx[r].phase = "finalized" => ctx[r].returned = ctx[r].response

\* C2 witness: after_request has swallowed a failure of the write and
\* handed back the view's response
C2_Witness ==
    \E r \in Req :
        /\ ctx[r].phase = "finalized"
        /\ ctx[r].caught = Some("DatabaseError")
        /\ ctx[r].written = 0
        /\ ctx[r].returned = ctx[r].response
        /\ Val(ctx[r].response).status_code = 404

S_health == <<"h","e","a","l","t","h">>

\* C4: after GET /api/health is answered with 200 the table holds a row
\* whose endpoint contains 'health', with method GET, status_code 200 and a
\* duration_ms that is not null and >= 0.
C4_HealthRequestLogged ==
    \A r \in Req :
        ( /\ ctx[r].phase = "finalized"
          /\ ctx[r].request = Some(Q_health)
          /\ Val(ctx[r].response).status_code = 200 )
        => \E row \in store :
              /\ Contains(row.endpoint, S_health)
              /\ row.method = S_GET
              /\ row.status_code = 200
              /\ ~IsNone(row.duration_ms)
              /\ Val(row.duration_ms) >= 0

\* the header names C5 speaks of
C5_Names ==
    { <<"a","u","t","h","o","r","i","z","a","t","i","o","n">>,
      <<"c","o","o","k","i","e">>,
      <<"x","-","a","p","i","-","k","e","y">> }

\* the (name, value) pairs of an optional dict
Entries(o) == IF IsNone(o) THEN {} ELSE {<<k, Val(o)[k]>> : k \in DOMAIN Val(o)}

\* C5: the request_headers persisted by log_error hold exactly the entries
\* of the input whose name, lower-cased, is none of authorization, cookie,
\* x-api-key; an absent input is persisted as absent; no row carries one of
\* the three names.
C5_HeadersSanitized ==
    /\ (last.op = "log_error" /\ IsNone(last.exc)) =>
          LET h == last.args.request_headers
              p == Val(last.ret).request_headers
          IN  /\ Val(last.ret) \in store
              /\ IsNone(h) => IsNone(p)
              /\ Entries(p) = {e \in Entries(h) : Lower(e[1]) \notin C5_Names}
    /\ \A row \in store : \A e \in Entries(row.request_headers) :
          Lower(e[1]) \notin C5_Names

\* C5 witness: a call whose headers mix Authorization with Content-Type
\* has stored Content-Type alone
C5_Witness ==
    /\ last.op = "log_error"
    /\ IsNone(last.exc)
    /\ Entries(last.args.request_headers)
         = {<<H_Authorization, "v">>, <<H_ContentType, "v">>}
    /\ Entries(Val(last.ret).request_headers) = {<<H_ContentType, "v">>}

\* context r has a row written by after_request for a response >= 400
LoggedFailure(r) ==
    /\ ctx[r].phase = "finalized"
    /\ ~IsNone(ctx[r].row)
    /\ Val(ctx[r].response).status_code >= 400

\* the response's body parses as JSON (response.is_json and get_json())
ParsesAsJson(response) == response.is_json /\ response.body.t # "invalid"

\* C6: for a response >= 400 whose body parses as JSON the row has
\* response_data equal to that JSON, error_message equal to the body's
\* 'message' (or 'Unknown error' when it has none) and error_type 'HTTPError'.
C6_JsonFailureClassified ==
    \A r \in Req :
        (LoggedFailure(r) /\ ParsesAsJson(Val(ctx[r].response))) =>
            LET body == Val(ctx[r].response).body
                row == Val(ctx[r].row)
            IN  /\ row.response_data = Some(body)
                /\ row.error_message =
                      Some(IF body.t = "object" /\ "message" \in DOMAIN body.v
                           THEN body.v.message
                           ELSE <<"U","n","k","n","o","w","n"," ","e","r","r","o","r">>)
                /\ row.error_type = Some(<<"H","T","T","P","E","r","r","o","r">>)

\* C6 as amended: as C6 when the JSON body is an object; when it is JSON
\* but not an object, response_data is that JSON, error_type is 'HTTPError'
\* and error_message is 'HTTP <status_code>'.
C6_JsonFailureClassifiedAmended ==
    \A r \in Req :
        (LoggedFailure(r) /\ ParsesAsJson(Val(ctx[r].response))) =>
            LET body == Val(ctx[r].response).body
                row == Val(ctx[r].row)
            IN  /\ row.response_data = Some(body)
                /\ row.error_type = Some(<<"H","T","T","P","E","r","r","o","r">>)
                /\ body.t = "object" =>
                      row.error_message =
                         Some(IF "message" \in DOMAIN body.v
                              THEN body.v.message
                              ELSE <<"U","n","k","n","o","w","n"," ","e","r","r","o","r">>)
                /\ body.t # "object" =>
                      row.error_message =
                         Some(<<"H","T","T","P"," ">>
                              \o Decimal(Val(ctx[r].response).status_code))

\* C6 witness: a 404 response whose JSON body is an array was logged with
\* the array as response_data and 'HTTP 404' as error_message
C6_Witness ==
    \E r \in Req :
        /\ LoggedFailure(r)
        /\ Val(ctx[r].response) = Response(404, TRUE, J_array)
        /\ Val(ctx[r].row).error_message
             = Some(<<"H","T","T","P"," ","4","0","4">>)
        /\ Val(ctx[r].row).error_type = Some(<<"H","T","T","P","E","r","r","o","r">>)
        /\ Val(ctx[r].row).response_data = Some(J_array)

\* C7: for a response >= 400 whose body is empty or not JSON the row has
\* error_message 'HTTP <status_code>', error_type 'HTTPError' and
\* response_data null.
C7_NonJsonFailureClassified ==
    \A r \in Req :
        (LoggedFailure(r) /\ Val(ctx[r].response).body.t = "invalid") =>
            LET row == Val(ctx[r].row)
            IN  /\ row.error_message =
                      Some(<<"H","T","T","P"," ">>
                           \o Decimal(Val(ctx[r].response).status_code))
                /\ row.error_type = Some(<<"H","T","T","P","E","r","r","o","r">>)
                /\ IsNone(row.response_data)

\* this step is a direct call of log_error
LogErrorStep == calls' = calls + 1 /\ last'.op = "log_error"

\* C8: log_error with an empty method, an empty endpoint or status_code 0
\* raises ValidationError and leaves the table as it was.
C8_RequiredFields ==
    [][( /\ LogErrorStep
         /\ \/ last'.args.method = <<>>
            \/ last'.args.endpoint = <<>>
            \/ last'.args.status_code = 0 )
       => /\ last'.exc = Some("ValidationError")
          /\ store' = store]_vars

\* C8 witness: a call with status_code 0 alone missing was refused while
\* the table held a row
C8_Witness ==
    /\ last.op = "log_error"
    /\ last.args.status_code = 0
    /\ last.args.method # <<>>
    /\ last.args.endpoint # <<>>
    /\ last.exc = Some("ValidationError")
    /\ store # {}

\* C9: the error log_error raises for method '', endpoint '', status_code 0
\* is a ValueError (`except ValueError` catches it).
C9_ValidationErrorIsValueError ==
    ( /\ last.op = "log_error"
      /\ last.args.method = <<>>
      /\ last.args.endpoint = <<>>
      /\ last.args.status_code = 0 )
    => /\ ~IsNone(last.exc)
       /\ IsSubclass(Val(last.exc), "ValueError")

\* this step is a direct call of delete_old_errors that returned
DeleteStep ==
    /\ calls' = calls + 1
    /\ last'.op = "delete_old_errors"
    /\ IsNone(last'.exc)

\* C10: delete_old_errors(days) removes exactly the rows whose request_time
\* is earlier than now minus `days` days and returns their number; every
\* other row is still there, unchanged, and found by its id.
C10_DeleteOldErrors ==
    [][DeleteStep =>
         LET cutoff == now - last'.args * TicksPerDay
         IN  /\ store' = {row \in store : ~(row.request_time < cutoff)}
             /\ last'.ret = Some(Cardinality({row \in store : row.request_time < cutoff}))
             /\ \A row \in store :
                   row.request_time >= cutoff
                   => get_error_by_id(store', row.id) = Some(row)]_vars

\* C10 witness: delete_old_errors(1) removed one row and kept the row whose
\* request_time is exactly the cutoff
C10_Witness ==
    /\ last.op = "delete_old_errors"
    /\ IsNone(last.exc)
    /\ last.args = 1
    /\ last.ret = Some(1)
    /\ \E row \in store : row.request_time = last.at - TicksPerDay

\* C11: a cleanup with days < 1 raises a validation error and deletes
\* nothing, also when delete_old_errors is called directly.
C11_ShortWindowRejected ==
    [][( /\ calls' = calls + 1
         /\ last'.op = "delete_old_errors"
         /\ last'.args < 1 )
       => /\ last'.exc = Some("ValidationError")
          /\ store' = store]_vars

(***************************************************************************)
(* The read side of services/error_service.py: get_errors and              *)
(* get_error_statistics, and the query.paginate they rest on.              *)
(***************************************************************************)
\* most rows the table is filled with before it is queried
MaxRows == 4
\* the per_page query.paginate falls back to (20), scaled to the table
PerPageFallback == 1
\* ErrorFilterSchema's default per_page (50), scaled to the table
PerPageDefault == 2
\* ErrorFilterSchema's largest per_page (100), scaled to the table
PerPageMax == 2
\* export_errors' default limit (1000), scaled to the table
ExportDefault == 3
\* export_errors' largest limit (10000), scaled to the table
ExportMax == 3

\* `if method:` and the like: an argument that is None or '' is skipped
TruthyStr(o) == ~IsNone(o) /\ Val(o) # <<>>

\* `if status_code:`: an argument that is None or 0 is skipped
TruthyInt(o) == ~IsNone(o) /\ Val(o) # 0

RECURSIVE LikeMatch(_, _)
\* SQL `s LIKE p`: % stands for any run of characters, _ for any one
\* character; SQLite (the configured database) compares letters without
\* regard to case
LikeMatch(s, p) ==
    IF p = <<>> THEN s = <<>>
    ELSE IF Head(p) = "%"
    THEN LikeMatch(s, Tail(p)) \/ (s # <<>> /\ LikeMatch(Tail(s), p))
    ELSE /\ s # <<>>
         /\ Head(p) = "_" \/ LowerChar(Head(s)) = LowerChar(Head(p))
         /\ LikeMatch(Tail(s), Tail(p))

\* Error.endpoint.contains(other): endpoint LIKE '%' || other || '%', the
\* wildcards of `other` not escaped
ColumnContains(column, other) == LikeMatch(column, <<"%">> \o other \o <<"%">>)

\* the arguments of get_errors
QueryArgs(page, per_page, method, endpoint, status_code, error_type, start_date, end_date) ==
    [ page |-> page, per_page |-> per_page, method |-> method,
      endpoint |-> endpoint, status_code |-> status_code,
      error_type |-> error_type, start_date |-> start_date,
      end_date |-> end_date ]

\* the filters get_errors adds to Error.query
ApplyFilters(rows, a) ==
    { r \in rows :
        /\ TruthyStr(a.method) => r.method = Upper(Val(a.method))
        /\ TruthyStr(a.endpoint) => ColumnContains(r.endpoint, Val(a.endpoint))
        /\ TruthyInt(a.status_code) => r.status_code = Val(a.status_code)
        /\ TruthyStr(a.error_type) =>
              ~IsNone(r.error_type) /\ Val(r.error_type) = Val(a.error_type)
        /\ ~IsNone(a.start_date) => r.request_time >= Val(a.start_date)
        /\ ~IsNone(a.end_date) => r.request_time <= Val(a.end_date) }

RECURSIVE OrderByDesc(_)
\* order_by(desc(Error.request_time)): every order the database may give,
\* rows of equal request_time in any order
OrderByDesc(rows) ==
    IF rows = {} THEN {<<>>}
    ELSE LET first == {r \in rows : \A o \in rows : o.request_time <= r.request_time}
         IN  UNION { {<<r>> \o rest : rest \in OrderByDesc(rows \ {r})} : r \in first }

\* ceil(total / per_page)
CeilDiv(total, per_page) == (total + per_page - 1) \div per_page

\* the sub-sequence q[from + 1 .. from + count]
Slice(q, from, count) ==
    LET lo == from + 1
        hi == IF from + count > Len(q) THEN Len(q) ELSE from + count
    IN  IF lo > hi THEN <<>> ELSE SubSeq(q, lo, hi)

\* query.paginate with has_next always true
paginate_AlwaysNext(ordered, page, per_page) ==
    LET pg == IF page < 1 THEN 1 ELSE page
        pp == IF per_page < 1 THEN PerPageFallback ELSE per_page
    IN  { [ items    |-> Slice(ordered, (pg - 1) * pp, pp),
            total    |-> Len(ordered),
            pages    |-> CeilDiv(Len(ordered), pp),
            has_next |-> TRUE,
            has_prev |-> pg > 1 ] }

\* query.paginate(page, per_page, error_out=False) over the ordered rows: a
\* page below 1 becomes 1 and a per_page below 0 the fallback; per_page 0
\* is an empty page in one release of the library and the fallback in the
\* next, so both are outcomes
paginate(ordered, page, per_page) ==
    LET pg == IF page < 1 THEN 1 ELSE page
        pps == IF per_page < 0 THEN {PerPageFallback}
               ELSE IF per_page = 0 THEN {0, PerPageFallback}
               ELSE {per_page}
    IN  { LET pages == IF pp = 0 THEN 0 ELSE CeilDiv(Len(ordered), pp)
          IN  [ items    |-> Slice(ordered, (pg - 1) * pp, pp),
                total    |-> Len(ordered),
                pages    |-> pages,
                has_next |-> pg < pages,
                has_prev |-> pg > 1 ] : pp \in pps }

\* ErrorService.get_errors(**a): the outcomes it can have, each the
\* exception class raised (None when it returns) and the dict returned
get_errors(rows, a, dbOk) ==
    IF ~dbOk
    THEN { [exc |-> Some("DatabaseError"), ret |-> None] }
    ELSE { [ exc |-> None,
             ret |-> Some([ errors   |-> pagination.items,
                            total    |-> pagination.total,
                            page     |-> a.page,
                            per_page |-> a.per_page,
                            pages    |-> pagination.pages,
                            has_next |-> pagination.has_next,
                            has_prev |-> pagination.has_prev ]) ] :
             pagination \in UNION { paginate(ordered, a.page, a.per_page) :
                                      ordered \in OrderByDesc(ApplyFilters(rows, a)) } }

(***************************************************************************)
(* The table filled as the tests fill it, then queried: one call at a      *)
(* time, each call's outcome taken before the next call is made.           *)
(***************************************************************************)
\* log_error(..., error_type=, request_time=, duration_ms=)
SeedArgs(method, endpoint, status_code, error_type, request_time, duration_ms) ==
    [ LogArgs(method, endpoint, status_code, None) EXCEPT
        !.error_type = error_type,
        !.request_time = Some(request_time),
        !.duration_ms = duration_ms ]

S_a_b == <<"/","a","_","b">>

S_axb == <<"/","a","x","b">>

S_A == <<"/","A">>

S_x == <<"/","x">>

\* the logged requests the table is filled with
SeedInputs ==
    { SeedArgs(S_get, S_a_b, 200, None, 0, Some(4)),
      SeedArgs(S_POST, S_axb, 404, Some(S_HTTPError), 1, Some(1)),
      SeedArgs(S_GET, S_A, 500, None, 1, None),
      SeedArgs(S_POST, S_a_b, 200, None, 2, Some(0)),
      SeedArgs(<<"D","E","L","E","T","E">>, S_x, 400, Some(S_HTTPError), 2, Some(3)) }

\* no call is under way
Idle == last.op = "none"

\* one more logged request, none logged twice
Insert ==
    /\ Idle
    /\ Cardinality(store) < MaxRows
    /\ \E a \in SeedInputs :
          /\ \A r \in store : <<r.endpoint, r.request_time>>
                                 # <<a.endpoint, Val(a.request_time)>>
          /\ store' = log_error(store, a, now, TRUE).rows
    /\ UNCHANGED <<now, ctx, last, calls>>
    /\ UNCHANGED catalog

\* the caller has taken the outcome of its call
Done ==
    /\ ~Idle
    /\ last' = [op |-> "none"]
    /\ UNCHANGED <<store, now, ctx, calls>>
    /\ UNCHANGED catalog

\* get_errors(page, per_page) without filters
PageInputs ==
    { QueryArgs(pp[1], pp[2], None, None, None, None, None, None) :
        pp \in { <<1, 1>>, <<2, 1>>, <<1, 2>>, <<2, 2>>, <<3, 2>>,
                 <<MaxRows + 1, 1>>, <<0, 2>>, <<1, 0>>, <<1, -1>> } }

\* get_errors with one filter, or two, and a page that holds every row
FilterInputs ==
    LET All(method, endpoint, status_code, error_type, start_date, end_date) ==
            QueryArgs(1, MaxRows + 1, method, endpoint, status_code, error_type,
                      start_date, end_date)
    IN  { All(Some(S_get), None, None, None, None, None),
          All(Some(<<>>), None, None, None, None, None),
          All(None, Some(<<"a","_","b">>), None, None, None, None),
          All(None, Some(<<"a">>), None, None, None, None),
          All(None, Some(<<"x">>), None, None, None, None),
          All(None, None, Some(200), None, None, None),
          All(None, None, Some(0), None, None, None),
          All(None, None, Some(403), None, None, None),
          All(None, None, None, Some(S_HTTPError), None, None),
          All(None, None, None, None, Some(1), None),
          All(None, None, None, None, None, Some(1)),
          All(None, None, None, None, Some(1), Some(1)),
          All(None, None, None, None, Some(2), Some(0)),
          All(Some(S_get), None, Some(200), None, None, None) }

\* ErrorService.get_errors(...) called directly
GetErrors ==
    /\ Idle
    /\ \E a \in PageInputs \cup FilterInputs, dbOk \in BOOLEAN :
          \E out \in get_errors(store, a, dbOk) :
              last' = [op |-> "get_errors", args |-> a, db |-> dbOk,
                       exc |-> out.exc, ret |-> out.ret]
    /\ UNCHANGED <<store, now, ctx, calls>>
    /\ UNCHANGED catalog

RECURSIVE SumDuration(_)
\* the sum of duration_ms over rows that have one
SumDuration(rows) ==
    IF rows = {} THEN 0
    ELSE LET r == CHOOSE x \in rows : TRUE
         IN  Val(r.duration_ms) + SumDuration(rows \ {r})

\* db.func.avg(Error.duration_ms): NULL over no row, else the mean of the
\* values that are not NULL, kept as the fraction sum / n
AvgDuration(rows) ==
    LET timed == {r \in rows : ~IsNone(r.duration_ms)}
    IN  IF timed = {} THEN None
        ELSE Some([sum |-> SumDuration(timed), n |-> Cardinality(timed)])

\* `query` of get_error_statistics: Error.query with the date filters given
StatisticsQuery(rows, start_date, end_date) ==
    { r \in rows :
        /\ ~IsNone(start_date) => r.request_time >= Val(start_date)
        /\ ~IsNone(end_date) => r.request_time <= Val(end_date) }

\* db.session.query(...).filter(query.whereclause): query.whereclause is
\* None when no date filter was added, and filter(None) is WHERE NULL, which
\* no row satisfies
FilterWhereclause(rows, start_date, end_date) ==
    IF IsNone(start_date) /\ IsNone(end_date)
    THEN {}
    ELSE StatisticsQuery(rows, start_date, end_date)

\* group_by(column) with db.func.count(Error.id): the number of rows for
\* each value of the column
GroupCount(rows, column) ==
    [k \in {r[column] : r \in rows} |-> Cardinality({r \in rows : r[column] = k})]

\* {str(code): count for code, count in error_counts}
StrKeys(counts) ==
    [k \in {Decimal(code) : code \in DOMAIN counts} |->
        counts[CHOOSE code \in DOMAIN counts : Decimal(code) = k]]

\* ErrorService.get_error_statistics(start_date, end_date); top_endpoints,
\* built like the other two maps, is left out
get_error_statistics(rows, start_date, end_date, dbOk) ==
    IF ~dbOk
    THEN [exc |-> Some("DatabaseError"), ret |-> None]
    ELSE LET grouped == FilterWhereclause(rows, start_date, end_date)
             avg_duration == AvgDuration(grouped)
         IN  [ exc |-> None,
               ret |-> Some(
                 [ total_requests |->
                       Cardinality(StatisticsQuery(rows, start_date, end_date)),
                   status_code_counts |->
                       StrKeys(GroupCount(grouped, "status_code")),
                   method_counts |-> GroupCount(grouped, "method"),
                   average_response_time_ms |->
                       IF IsNone(avg_duration) \/ Val(avg_duration).sum = 0
                       THEN [sum |-> 0, n |-> 1]
                       ELSE Val(avg_duration) ]) ]

\* the (start_date, end_date) pairs get_error_statistics is called with
RangeInputs ==
    { <<None, None>>, <<Some(1), None>>, <<None, Some(1)>>,
      <<Some(0), Some(2)>>, <<Some(2), Some(0)>> }

\* ErrorService.get_error_statistics(...) called directly
GetErrorStatistics ==
    /\ Idle
    /\ \E range \in RangeInputs, dbOk \in BOOLEAN :
          LET out == get_error_statistics(store, range[1], range[2], dbOk)
          IN  last' = [op |-> "get_error_statistics", args |-> range,
                       db |-> dbOk, exc |-> out.exc, ret |-> out.ret]
    /\ UNCHANGED <<store, now, ctx, calls>>
    /\ UNCHANGED catalog

(***************************************************************************)
(* routes/errors.py, utils/response.py and schemas/error_schema.py.        *)
(***************************************************************************)
\* utils.response.success_response(data, message)
success_response(data) ==
    [status_code |-> 200, success |-> TRUE, data |-> Some(data)]

\* utils.response.error_response(status_code, message)
error_response(status_code) ==
    [status_code |-> status_code, success |-> FALSE, data |-> None]

\* a query parameter holding a date: well-formed ISO-8601 without a zone
\* ("iso") or ending in Z ("isoZ"), text that is no date ("bad"), or the
\* empty string ("empty"); t is the instant a well-formed one names
DateString(form, t) == [type |-> "str", form |-> form, t |-> t]

\* a datetime object
DateTime(t) == [type |-> "datetime", t |-> t]

\* x.replace('Z', '+00:00'): on a str the trailing Z becomes an offset; a
\* datetime's replace() takes fields, not strings, and raises TypeError
replace_Z(x) ==
    IF x.type = "str"
    THEN [ exc |-> None,
           val |-> Some([x EXCEPT !.form = IF @ = "isoZ" THEN "isoOffset" ELSE @]) ]
    ELSE [exc |-> Some("TypeError"), val |-> None]

\* datetime.fromisoformat(s), s a str without a trailing Z
fromisoformat(s) ==
    IF s.form \in {"iso", "isoOffset"}
    THEN [exc |-> None, val |-> Some(s.t)]
    ELSE [exc |-> Some("ValueError"), val |-> None]

\* `if x:` for a parameter value: false for None and for ''
TruthyParam(o) == ~IsNone(o) /\ ~(Val(o).type = "str" /\ Val(o).form = "empty")

\* `datetime.fromisoformat(x.replace('Z', '+00:00'))` under `if x:`
ParseDate(o) ==
    IF ~TruthyParam(o) THEN [exc |-> None, val |-> None]
    ELSE LET replaced == replace_Z(Val(o))
         IN  IF ~IsNone(replaced.exc) THEN [exc |-> replaced.exc, val |-> None]
             ELSE fromisoformat(Val(replaced.val))

\* validate.OneOf([...]) of ErrorFilterSchema.method
SchemaMethods ==
    { S_GET, S_POST, <<"P","U","T">>, <<"D","E","L","E","T","E">>,
      <<"P","A","T","C","H">>, <<"O","P","T","I","O","N","S">> }

\* fields.DateTime() of ErrorFilterSchema: the text is parsed into a
\* datetime object, or the field is invalid
DateTimeField(o) ==
    IF IsNone(o) THEN [ok |-> TRUE, val |-> None]
    ELSE IF Val(o).form \in {"iso", "isoZ", "isoOffset"}
    THEN [ok |-> TRUE, val |-> Some(DateTime(Val(o).t))]
    ELSE [ok |-> FALSE, val |-> None]

\* ErrorFilterSchema().load(request.args): ValidationError for a value
\* outside its validator, else the parameters with page and per_page
\* defaulted and the dates parsed
ErrorFilterSchema(params) ==
    LET start_date == DateTimeField(params.start_date)
        end_date == DateTimeField(params.end_date)
        valid ==
            /\ ~IsNone(params.method) => Val(params.method) \in SchemaMethods
            /\ ~IsNone(params.status_code) => Val(params.status_code) \in 100..599
            /\ ~IsNone(params.page) => Val(params.page) >= 1
            /\ ~IsNone(params.per_page) => Val(params.per_page) \in 1..PerPageMax
            /\ start_date.ok
            /\ end_date.ok
    IN  IF ~valid
        THEN [exc |-> Some("MarshmallowValidationError"), args |-> None]
        ELSE [ exc |-> None,
               args |-> Some(
                 [ params EXCEPT
                     !.page = IF IsNone(@) THEN Some(1) ELSE @,
                     !.per_page = IF IsNone(@) THEN Some(PerPageDefault) ELSE @,
                     !.start_date = start_date.val,
                     !.end_date = end_date.val ]) ]

\* the except clauses of get_errors (the route)
ListHandlers(cls) ==
    IF IsSubclass(cls, "MarshmallowValidationError") THEN error_response(400)
    ELSE IF IsSubclass(cls, "DatabaseError") THEN error_response(500)
    ELSE error_response(500)

\* the except clauses of the statistics and export routes with the
\* ValueError clause missing
ReadHandlers_NoValueError(cls) ==
    IF IsSubclass(cls, "DatabaseError") THEN error_response(500)
    ELSE error_response(500)

\* the except clauses of get_error_statistics (the route) and export_errors
ReadHandlers(cls) ==
    IF IsSubclass(cls, "ValueError") THEN error_response(400)
    ELSE IF IsSubclass(cls, "DatabaseError") THEN error_response(500)
    ELSE error_response(500)

\* the `data` of a listing response
ListData(result) ==
    [ errors |-> result.errors, total |-> result.total, page |-> result.page,
      per_page |-> result.per_page, pages |-> result.pages,
      has_next |-> result.has_next, has_prev |-> result.has_prev ]

\* GET /api/errors/ (routes.errors.get_errors): the responses it can give
route_get_errors(rows, params, dbOk) ==
    LET loaded == ErrorFilterSchema(params)
    IN  IF ~IsNone(loaded.exc) THEN {ListHandlers(Val(loaded.exc))}
        ELSE
        LET args == Val(loaded.args)
            start_date == ParseDate(args.start_date)
            end_date == ParseDate(args.end_date)
        IN  IF ~IsNone(start_date.exc) THEN {ListHandlers(Val(start_date.exc))}
            ELSE IF ~IsNone(end_date.exc) THEN {ListHandlers(Val(end_date.exc))}
            ELSE { IF ~IsNone(out.exc) THEN ListHandlers(Val(out.exc))
                   ELSE success_response(ListData(Val(out.ret))) :
                   out \in get_errors(rows,
                              QueryArgs(Val(args.page), Val(args.per_page),
                                        args.method, args.endpoint,
                                        args.status_code, args.error_type,
                                        start_date.val, end_date.val),
                              dbOk) }

\* route_get_error without the `if not error_log` test
route_get_error_NoCheck(rows, error_id, dbOk) ==
    IF ~dbOk THEN error_response(500)
    ELSE success_response(get_error_by_id(rows, error_id))

\* GET /api/errors/<id> (routes.errors.get_error); a failing query makes
\* get_error_by_id raise DatabaseError
route_get_error(rows, error_id, dbOk) ==
    IF ~dbOk THEN error_response(500)
    ELSE LET error_log == get_error_by_id(rows, error_id)
         IN  IF IsNone(error_log) THEN error_response(404)
             ELSE success_response(Val(error_log))

\* GET /api/errors/statistics (routes.errors.get_error_statistics)
route_get_error_statistics(rows, params, dbOk) ==
    LET start_date == ParseDate(params.start_date)
        end_date == ParseDate(params.end_date)
    IN  IF ~IsNone(start_date.exc) THEN ReadHandlers(Val(start_date.exc))
        ELSE IF ~IsNone(end_date.exc) THEN ReadHandlers(Val(end_date.exc))
        ELSE LET out == get_error_statistics(rows, start_date.val, end_date.val, dbOk)
             IN  IF ~IsNone(out.exc) THEN ReadHandlers(Val(out.exc))
                 ELSE success_response(Val(out.ret))

\* DELETE /api/errors/cleanup (routes.errors.cleanup_old_errors): the table
\* afterwards and the response; `days` absent is 30
route_cleanup_old_errors(rows, days_param, t, dbOk) ==
    LET days == IF IsNone(days_param) THEN 30 ELSE Val(days_param)
    IN  IF days < 1 THEN [rows |-> rows, response |-> error_response(400)]
        ELSE LET out == delete_old_errors(rows, days, t, dbOk)
             IN  IF ~IsNone(out.exc)
                 THEN [rows |-> out.rows, response |-> error_response(500)]
                 ELSE [ rows |-> out.rows,
                        response |-> success_response(
                            [deleted_count |-> Val(out.ret), days_kept |-> days]) ]

\* request.args.get('limit', 1000, type=int): the default when the
\* parameter is absent or no integer
LimitParam(o) == IF IsNone(o) \/ ~Val(o).int THEN ExportDefault ELSE Val(o).n

\* export_errors with the limit passed on as sent
route_export_errors_Uncapped(rows, params, dbOk) ==
    LET limit == LimitParam(params.limit)
        start_date == ParseDate(params.start_date)
        end_date == ParseDate(params.end_date)
    IN  IF ~IsNone(start_date.exc) THEN {ReadHandlers(Val(start_date.exc))}
        ELSE IF ~IsNone(end_date.exc) THEN {ReadHandlers(Val(end_date.exc))}
        ELSE { IF ~IsNone(out.exc) THEN ReadHandlers(Val(out.exc))
               ELSE IF params.format = "csv" THEN error_response(501)
               ELSE success_response(
                      [ total_records |-> Len(Val(out.ret).errors),
                        errors |-> Val(out.ret).errors ]) :
               out \in get_errors(rows,
                          QueryArgs(1, limit, None, None, None, None,
                                    start_date.val, end_date.val),
                          dbOk) }

\* GET /api/errors/export (routes.errors.export_errors): the responses it
\* can give
route_export_errors(rows, params, dbOk) ==
    LET raw == LimitParam(params.limit)
        limit == IF raw < ExportMax THEN raw ELSE ExportMax
        start_date == ParseDate(params.start_date)
        end_date == ParseDate(params.end_date)
    IN  IF ~IsNone(start_date.exc) THEN {ReadHandlers(Val(start_date.exc))}
        ELSE IF ~IsNone(end_date.exc) THEN {ReadHandlers(Val(end_date.exc))}
        ELSE { IF ~IsNone(out.exc) THEN ReadHandlers(Val(out.exc))
               ELSE IF params.format = "csv" THEN error_response(501)
               ELSE success_response(
                      [ total_records |-> Len(Val(out.ret).errors),
                        errors |-> Val(out.ret).errors ]) :
               out \in get_errors(rows,
                          QueryArgs(1, limit, None, None, None, None,
                                    start_date.val, end_date.val),
                          dbOk) }

(***************************************************************************)
(* Requests to the read routes.                                            *)
(***************************************************************************)
D_iso == Some(DateString("iso", 1))

D_isoZ == Some(DateString("isoZ", 1))

D_bad == Some(DateString("bad", 0))

D_empty == Some(DateString("empty", 0))

\* the query string of GET /api/errors/
ListParams(page, per_page, method, status_code, start_date, end_date) ==
    [ page |-> page, per_page |-> per_page, method |-> method,
      endpoint |-> None, status_code |-> status_code, error_type |-> None,
      start_date |-> start_date, end_date |-> end_date ]

ListInputs ==
    { ListParams(None, None, None, None, None, None),
      ListParams(None, Some(1), None, None, None, None),
      ListParams(None, Some(PerPageMax), None, None, None, None),
      ListParams(None, Some(PerPageMax + 1), None, None, None, None),
      ListParams(None, Some(0), None, None, None, None),
      ListParams(Some(2), Some(1), None, None, None, None),
      ListParams(Some(MaxRows + 1), Some(1), None, None, None, None),
      ListParams(Some(0), None, None, None, None, None),
      ListParams(None, None, Some(S_GET), None, None, None),
      ListParams(None, None, Some(S_get), None, None, None),
      ListParams(None, None, None, Some(200), None, None),
      ListParams(None, None, None, Some(99), None, None),
      ListParams(None, None, None, None, D_iso, None),
      ListParams(None, None, None, None, D_isoZ, None),
      ListParams(None, None, None, None, D_bad, None),
      ListParams(None, None, None, None, D_empty, None),
      ListParams(None, None, None, None, None, D_isoZ),
      ListParams(None, None, None, None, None, D_bad) }

\* the query string of GET /api/errors/statistics
StatisticsInputs ==
    { [start_date |-> d[1], end_date |-> d[2]] :
        d \in { <<None, None>>, <<D_iso, None>>, <<D_isoZ, None>>,
                <<D_bad, None>>, <<D_empty, None>>, <<None, D_iso>>,
                <<None, D_bad>>, <<D_iso, D_isoZ>> } }

\* a `limit` parameter: an integer, or text that is none
IntParam(n) == Some([int |-> TRUE, n |-> n])

NoIntParam == Some([int |-> FALSE, n |-> 0])

\* the query string of GET /api/errors/export
ExportParams(format, limit, start_date, end_date) ==
    [ format |-> format, limit |-> limit, start_date |-> start_date,
      end_date |-> end_date ]

ExportInputs ==
    { ExportParams("json", None, None, None),
      ExportParams("json", IntParam(1), None, None),
      ExportParams("json", IntParam(0), None, None),
      ExportParams("json", IntParam(-1), None, None),
      ExportParams("json", IntParam(ExportMax + 1), None, None),
      ExportParams("json", IntParam(ExportMax + MaxRows), None, None),
      ExportParams("json", NoIntParam, None, None),
      ExportParams("csv", None, None, None),
      ExportParams("json", IntParam(ExportMax + 1), D_iso, None),
      ExportParams("json", None, D_isoZ, D_isoZ),
      ExportParams("json", None, D_bad, None),
      ExportParams("json", None, D_empty, None),
      ExportParams("json", None, None, D_bad) }

\* GET /api/errors/
ListRoute ==
    /\ Idle
    /\ \E params \in ListInputs, dbOk \in BOOLEAN :
          \E response \in route_get_errors(store, params, dbOk) :
              last' = [op |-> "GET /api/errors", args |-> params, db |-> dbOk,
                       response |-> response]
    /\ UNCHANGED <<store, now, ctx, calls>>
    /\ UNCHANGED catalog

\* GET /api/errors/statistics
StatisticsRoute ==
    /\ Idle
    /\ \E params \in StatisticsInputs, dbOk \in BOOLEAN :
          last' = [op |-> "GET /api/errors/statistics", args |-> params,
                   db |-> dbOk,
                   response |-> route_get_error_statistics(store, params, dbOk)]
    /\ UNCHANGED <<store, now, ctx, calls>>
    /\ UNCHANGED catalog

\* GET /api/errors/export
ExportRoute ==
    /\ Idle
    /\ \E params \in ExportInputs, dbOk \in BOOLEAN :
          \E response \in route_export_errors(store, params, dbOk) :
              last' = [op |-> "GET /api/errors/export", args |-> params,
                       db |-> dbOk, response |-> response]
    /\ UNCHANGED <<store, now, ctx, calls>>
    /\ UNCHANGED catalog

NextQuery ==
    \/ Insert
    \/ Done
    \/ GetErrors
    \/ GetErrorStatistics
    \/ ListRoute
    \/ StatisticsRoute
    \/ ExportRoute

SpecQuery == Init /\ [][NextQuery]_vars

(***************************************************************************)
(* Properties of the read side.                                            *)
(***************************************************************************)
\* row r satisfies every filter that get_errors was given
Satisfies(r, a) ==
    /\ ~IsNone(a.method) => r.method = Upper(Val(a.method))
    /\ ~IsNone(a.endpoint) => Contains(r.endpoint, Val(a.endpoint))
    /\ ~IsNone(a.status_code) => r.status_code = Val(a.status_code)
    /\ ~IsNone(a.error_type) => r.error_type = a.error_type
    /\ ~IsNone(a.start_date) => r.request_time >= Val(a.start_date)
    /\ ~IsNone(a.end_date) => r.request_time <= Val(a.end_date)

\* the elements of a sequence
Range(q) == {q[i] : i \in 1..Len(q)}

\* C12: get_errors returns exactly the rows that satisfy every filter given
\* (method equal after upper-casing, endpoint containing the substring,
\* status_code and error_type equal, request_time within the dates), most
\* recent first; a filter not given excludes nothing and filters matching
\* nothing give an empty list.
C12_FiltersExact ==
    (last.op = "get_errors" /\ IsNone(last.exc)) =>
        LET a == last.args
            expected == {r \in store : Satisfies(r, a)}
            items == Val(last.ret).errors
        IN  /\ Val(last.ret).total = Cardinality(expected)
            /\ Range(items) \subseteq expected
            /\ \A i, j \in 1..Len(items) :
                  i < j => items[i].request_time >= items[j].request_time
            /\ (a.page = 1 /\ a.per_page >= Cardinality(expected))
                  => Range(items) = expected

\* C13: a page beyond the last page of a listing is answered without error
\* by an empty list with has_next false and the total of the matching rows:
\* by get_errors and by GET /api/errors alike.
C13_PageBeyondLast ==
    /\ ( /\ last.op = "get_errors"
         /\ last.db
         /\ last.args.per_page >= 1
         /\ last.args.page >
               CeilDiv(Cardinality(ApplyFilters(store, last.args)), last.args.per_page) )
       => /\ IsNone(last.exc)
          /\ Val(last.ret).errors = <<>>
          /\ Val(last.ret).has_next = FALSE
          /\ Val(last.ret).total = Cardinality(ApplyFilters(store, last.args))
    /\ ( /\ last.op = "GET /api/errors"
         /\ last.db
         /\ last.args \in { ListParams(Some(page), Some(per_page), None, None, None, None) :
                              page \in 1..(MaxRows + 1), per_page \in 1..PerPageMax }
         /\ Val(last.args.page) >
               CeilDiv(Cardinality(store), Val(last.args.per_page)) )
       => /\ last.response.status_code = 200
          /\ last.response.success
          /\ Val(last.response.data).errors = <<>>
          /\ Val(last.response.data).has_next = FALSE
          /\ Val(last.response.data).total = Cardinality(store)

\* C13 witness: page 3 of a listing of three rows, two to a page, came back
\* empty with total 3
C13_Witness ==
    /\ last.op = "get_errors"
    /\ last.args.page = 3
    /\ last.args.per_page = 2
    /\ Cardinality(store) = 3
    /\ IsNone(last.exc)
    /\ Val(last.ret).errors = <<>>
    /\ Val(last.ret).total = 3
    /\ ~Val(last.ret).has_next

\* C14: no response of GET /api/errors holds more rows than the largest
\* per_page and no response of GET /api/errors/export more than the largest
\* limit, whatever per_page or limit the client sends.
C14_ResponseSizeCapped ==
    /\ (last.op = "GET /api/errors" /\ last.response.success)
          => Len(Val(last.response.data).errors) <= PerPageMax
    /\ (last.op = "GET /api/errors/export" /\ last.response.success)
          => Len(Val(last.response.data).errors) <= ExportMax

\* C14 witness: an export asking for more than the largest limit, from a
\* table holding more rows than that, was answered with the largest limit
\* of rows
C14_Witness ==
    /\ last.op = "GET /api/errors/export"
    /\ last.args.limit = IntParam(ExportMax + 1)
    /\ Cardinality(store) > ExportMax
    /\ last.response.success
    /\ Len(Val(last.response.data).errors) = ExportMax

\* the rows get_error_statistics(start, end) is about
InRange(range) ==
    { r \in store :
        /\ ~IsNone(range[1]) => r.request_time >= Val(range[1])
        /\ ~IsNone(range[2]) => r.request_time <= Val(range[2]) }

\* the sum of the values of a map of counts
RECURSIVE SumCounts(_)
SumCounts(f) ==
    IF DOMAIN f = {} THEN 0
    ELSE LET k == CHOOSE x \in DOMAIN f : TRUE
         IN  f[k] + SumCounts([x \in DOMAIN f \ {k} |-> f[x]])

\* C15: get_error_statistics, with or without date bounds, returns
\* total_requests equal to the number of rows within the bounds,
\* status_code_counts mapping each status code, as a string, to its number
\* of those rows and method_counts each method to its number; each map's
\* counts sum to total_requests.
C15_StatisticsCounts ==
    (last.op = "get_error_statistics" /\ IsNone(last.exc)) =>
        LET subset == InRange(last.args)
            stats == Val(last.ret)
        IN  /\ stats.total_requests = Cardinality(subset)
            /\ stats.status_code_counts =
                  [k \in {Decimal(r.status_code) : r \in subset} |->
                      Cardinality({r \in subset : Decimal(r.status_code) = k})]
            /\ stats.method_counts =
                  [k \in {r.method : r \in subset} |->
                      Cardinality({r \in subset : r.method = k})]
            /\ SumCounts(stats.status_code_counts) = stats.total_requests
            /\ SumCounts(stats.method_counts) = stats.total_requests

\* C16: average_response_time_ms is 0 when no row is within the bounds and
\* the mean of the rows' duration_ms when some are.
C16_AverageDuration ==
    (last.op = "get_error_statistics" /\ IsNone(last.exc)) =>
        LET subset == InRange(last.args)
            timed == {r \in subset : ~IsNone(r.duration_ms)}
            avg == Val(last.ret).average_response_time_ms
        IN  /\ avg.n > 0
            /\ subset = {} => avg.sum = 0
            /\ timed # {} => avg.sum * Cardinality(timed) = SumDuration(timed) * avg.n

\* the three read routes
ReadRoutes == {"GET /api/errors", "GET /api/errors/statistics", "GET /api/errors/export"}

\* a date parameter that is absent or well-formed ISO-8601
WellFormed(o) == IsNone(o) \/ Val(o).form \in {"iso", "isoZ"}

\* the rows whose request_time is within the dates the parameters name
WithinDates(params) ==
    { r \in store :
        /\ ~IsNone(params.start_date) => r.request_time >= Val(params.start_date).t
        /\ ~IsNone(params.end_date) => r.request_time <= Val(params.end_date).t }

\* C17: on the listing, statistics and export routes a well-formed ISO-8601
\* start_date or end_date, with or without a trailing Z, is answered with
\* success, the rows restricted to start_date <= request_time <= end_date,
\* and never with a 4xx or 5xx.
C17_ValidDatesAccepted ==
    ( /\ last.op \in ReadRoutes
      /\ last.db
      /\ WellFormed(last.args.start_date)
      /\ WellFormed(last.args.end_date)
      /\ ~IsNone(last.args.start_date) \/ ~IsNone(last.args.end_date)
      /\ last.op = "GET /api/errors/export" => last.args.format = "json" )
    => /\ last.response.status_code = 200
       /\ last.response.success
       /\ last.op # "GET /api/errors/statistics"
             => Range(Val(last.response.data).errors) \subseteq WithinDates(last.args)
       /\ last.op = "GET /api/errors/statistics"
             => Val(last.response.data).total_requests
                   = Cardinality(WithinDates(last.args))

IdInputs == 0..(MaxCalls + 1)

\* the `days` parameters sent: none, and integers around the smallest
\* allowed
DaysParams == {None, Some(0), Some(1), Some(2)}

\* GET /api/errors/<id>
GetErrorRoute ==
    /\ calls < MaxCalls
    /\ \E error_id \in IdInputs, dbOk \in BOOLEAN :
          last' = [op |-> "GET /api/errors/<id>", args |-> error_id, at |-> now,
                   db |-> dbOk,
                   response |-> route_get_error(store, error_id, dbOk)]
    /\ calls' = calls + 1
    /\ UNCHANGED <<store, now, ctx>>
    /\ UNCHANGED catalog

\* DELETE /api/errors/cleanup
CleanupRoute ==
    /\ calls < MaxCalls
    /\ \E days \in DaysParams, dbOk \in BOOLEAN :
          LET out == route_cleanup_old_errors(store, days, now, dbOk)
          IN  /\ store' = out.rows
              /\ last' = [op |-> "DELETE /api/errors/cleanup", args |-> days,
                          at |-> now, db |-> dbOk, response |-> out.response]
    /\ calls' = calls + 1
    /\ UNCHANGED <<now, ctx>>
    /\ UNCHANGED catalog

NextRoutes ==
    \/ Tick
    \/ LogError
    \/ DeleteOldErrors
    \/ GetErrorRoute
    \/ CleanupRoute

SpecRoutes == Init /\ [][NextRoutes]_vars

\* the ids of the stored rows
StoredIds == {r.id : r \in store}

\* what C20 says of one state
C20_State ==
    /\ (last.op = "log_error" /\ IsNone(last.exc)) =>
          /\ Val(last.ret) \in store
          /\ Val(last.ret).id \in Nat \ {0}
          /\ \A r \in store : r.id = Val(last.ret).id => r = Val(last.ret)
    /\ \A r \in store : get_error_by_id(store, r.id) = Some(r)
    /\ \A error_id \in IdInputs \ StoredIds : get_error_by_id(store, error_id) = None
    /\ (last.op = "GET /api/errors/<id>" /\ last.db) =>
          IF last.args \in StoredIds
          THEN /\ last.response.status_code = 200
               /\ Val(last.response.data) \in store
               /\ Val(last.response.data).id = last.args
          ELSE /\ last.response.status_code = 404
               /\ ~last.response.success

\* C20: a successful log_error returns a row with an id that no other
\* stored row has; get_error_by_id of that id gives that row until a
\* cleanup deletes it; get_error_by_id of an id not stored gives None and
\* GET /api/errors/<id> then answers 404 with success false.
C20_IdsAndLookup ==
    [][ /\ C20_State'
        /\ \A r \in store :
              r \notin store' =>
                 last'.op \in {"delete_old_errors", "DELETE /api/errors/cleanup"}
      ]_vars

\* C20 witness: with two rows logged, GET /api/errors/2 answered with the
\* second row
C20_Witness ==
    /\ last.op = "GET /api/errors/<id>"
    /\ last.args = 2
    /\ StoredIds = {1, 2}
    /\ last.response.status_code = 200
    /\ Some(Val(last.response.data)) = get_error_by_id(store, 2)
    /\ Val(last.response.data).id = 2

(***************************************************************************)
(* log_error called with status codes inside and outside 100..599.         *)
(***************************************************************************)
\* the status_code arguments tried: the ends of the range ErrorSchema
\* declares, one inside, and the nearest ones outside
StatusInputs == {-1, 99, 100, 404, 599, 600}

\* ErrorService.log_error(method, endpoint, status_code) called directly
LogStatus ==
    /\ calls < MaxCalls
    /\ \E status_code \in StatusInputs, dbOk \in BOOLEAN :
          LET a == LogArgs(S_get, S_api_test, status_code, None)
              out == log_error(store, a, now, dbOk)
          IN  /\ store' = out.rows
              /\ last' = [op |-> "log_error", args |-> a, at |-> now,
                          exc |-> out.exc, ret |-> out.ret]
    /\ calls' = calls + 1
    /\ UNCHANGED <<now, ctx>>
    /\ UNCHANGED catalog

NextStatus ==
    \/ Tick
    \/ LogStatus
    \/ DeleteOldErrors

SpecStatus == Init /\ [][NextStatus]_vars

\* C21: every stored row has a status_code between 100 and 599; a
\* log_error call with a status_code outside that range raises
\* ValidationError and stores nothing.
C21_StatusCodeRange ==
    /\ \A row \in store : row.status_code \in 100..599
    /\ (last.op = "log_error" /\ last.args.status_code \notin 100..599) =>
          last.exc = Some("ValidationError")

(***************************************************************************)
(* The interceptor under a wall clock that is set back while a request is  *)
(* served: time.time() and datetime.utcnow() read the system clock, which  *)
(* an operator or a time daemon may adjust.                                *)
(***************************************************************************)
\* the system clock is set back
ClockStepBack ==
    /\ now > 0
    /\ now' = now - 1
    /\ UNCHANGED <<store, ctx, last, calls>>
    /\ UNCHANGED catalog

NextClock ==
    \/ Next
    \/ ClockStepBack

SpecClock == Init /\ [][NextClock]_vars

\* C22: every row the interceptor wrote has a duration_ms that is not
\* negative, whatever the clock read at the start of the request and at the
\* end.
C22_DurationNotNegative ==
    \A row \in store : ~IsNone(row.duration_ms) => Val(row.duration_ms) >= 0

(***************************************************************************)
(* models/link.py and models/category.py: rows, schemas and look-ups.      *)
(* `tables` is the committed content of the database,                      *)
(* [categories |-> the categories rows, links |-> the links rows].         *)
(***************************************************************************)
\* Link(...): a row of the links table; description and created_at, which
\* nothing changes after the insert, are left out
Link(id, title, url, category_id, pinned, updated_at) ==
    [ id |-> id, title |-> title, url |-> url, category_id |-> category_id,
      pinned |-> pinned, updated_at |-> updated_at ]

U_a == "https://a.example"

U_b == "https://b.example"

U_bad == "a.example"

\* urllib.parse.urlparse(url) of the URLs sent: without "//" the text is a
\* path and scheme and netloc are empty
urlparse(url) ==
    IF url = U_a THEN [scheme |-> "https", netloc |-> "a.example"]
    ELSE IF url = U_b THEN [scheme |-> "https", netloc |-> "b.example"]
    ELSE [scheme |-> "", netloc |-> ""]

\* Link.validate_url
validate_url(url) ==
    LET result == urlparse(url)
    IN  result.scheme # "" /\ result.netloc # ""

\* the JSON object of a request body; a key it does not hold is None
Data(title, url, categoryId, pinned, name) ==
    [ title |-> title, url |-> url, categoryId |-> categoryId,
      pinned |-> pinned, name |-> name ]

\* `not data`: the body is the empty object
EmptyData(data) == \A k \in DOMAIN data : IsNone(data[k])

\* link_create_schema.validate(data) (partial = FALSE) and
\* link_update_schema.validate(data) (partial = TRUE): whether errors are
\* reported
LinkSchemaErrors(data, partial) ==
    \/ ~partial /\ (IsNone(data.title) \/ IsNone(data.url))
    \/ ~IsNone(data.title) /\ Val(data.title) = ""
    \/ ~IsNone(data.url) /\ ~validate_url(Val(data.url))
    \/ ~IsNone(data.name)

\* category_create_schema.validate(data): whether errors are reported
CategorySchemaErrors(data) ==
    \/ IsNone(data.name)
    \/ Val(data.name) = ""
    \/ \E k \in DOMAIN data \ {"name"} : ~IsNone(data[k])

\* Link.query.get(id), Category.query.get(id): the rows with that id
query_get(rows, id) == {r \in rows : r.id = id}

\* Link.find_by_url(url): the rows .first() chooses from
find_by_url(tables, url) == {l \in tables.links : l.url = url}

\* Category.find_by_name(name)
find_by_name(tables, name) == {c \in tables.categories : c.name = name}

(***************************************************************************)
(* db.session: the changes it holds until commit() or rollback().          *)
(***************************************************************************)
\* one change held by the session; `at` is the updated_at the code set
Op(op, id, data, cascade, at) ==
    [op |-> op, id |-> id, data |-> data, cascade |-> cascade, at |-> at]

NoData == Data(None, None, None, None, None)

\* what one change does to the tables when it is flushed at time t; links
\* has no unique or enforced foreign key constraint (SQLite does not
\* enforce foreign keys unless asked to), categories.name is unique
ApplyOp(tables, o, t) ==
    IF o.op = "add_link"
    THEN [ exc |-> None,
           tables |-> [ tables EXCEPT !.links = @ \cup
                          { Link(NextId(tables.links), Val(o.data.title),
                                 Val(o.data.url), o.data.categoryId,
                                 IF IsNone(o.data.pinned) THEN FALSE
                                 ELSE Val(o.data.pinned),
                                 t) } ] ]
    ELSE IF o.op = "update_link"
    THEN IF query_get(tables.links, o.id) = {}
         THEN \* UPDATE matched no row
              [exc |-> Some("StaleDataError"), tables |-> tables]
         ELSE [ exc |-> None,
                tables |-> [ tables EXCEPT !.links =
                  { IF l.id # o.id THEN l
                    ELSE [ l EXCEPT
                             !.title = IF IsNone(o.data.title) THEN @
                                       ELSE Val(o.data.title),
                             !.url = IF IsNone(o.data.url) THEN @
                                     ELSE Val(o.data.url),
                             !.category_id = IF IsNone(o.data.categoryId) THEN @
                                             ELSE o.data.categoryId,
                             !.pinned = IF IsNone(o.data.pinned) THEN @
                                        ELSE Val(o.data.pinned),
                             !.updated_at = o.at ] : l \in @ } ] ]
    ELSE IF o.op = "delete_link"
    THEN \* DELETE matching no row is only warned about
         [ exc |-> None,
           tables |-> [tables EXCEPT !.links = {l \in @ : l.id # o.id}] ]
    ELSE IF o.op = "unlink"
    THEN \* Link.query.filter_by(category_id=id).update({'category_id': None});
         \* the UPDATE also sets updated_at (onupdate=func.now())
         [ exc |-> None,
           tables |-> [ tables EXCEPT !.links =
             { IF l.category_id # Some(o.id) THEN l
               ELSE [l EXCEPT !.category_id = None, !.updated_at = t] :
               l \in @ } ] ]
    ELSE IF o.op = "add_category"
    THEN IF find_by_name(tables, Val(o.data.name)) # {}
         THEN [exc |-> Some("IntegrityError"), tables |-> tables]
         ELSE [ exc |-> None,
                tables |-> [ tables EXCEPT !.categories = @ \cup
                  {Category(NextId(tables.categories), Val(o.data.name))} ] ]
    ELSE \* "delete_category": the category and the links its `links`
         \* relationship cascades to
         [ exc |-> None,
           tables |-> [ tables EXCEPT
                          !.categories = {c \in @ : c.id # o.id},
                          !.links = {l \in @ : l.id \notin o.cascade} ] ]

RECURSIVE session_flush(_, _, _)
\* the flush of the session's changes in order; the first failure ends it
session_flush(tables, pending, t) ==
    IF pending = <<>> THEN [exc |-> None, tables |-> tables]
    ELSE LET r == ApplyOp(tables, Head(pending), t)
         IN  IF ~IsNone(r.exc) THEN [exc |-> r.exc, tables |-> tables]
             ELSE session_flush(r.tables, Tail(pending), t)

\* db.session.commit(): the tables afterwards and the exception raised; a
\* failed commit changes nothing
session_commit(tables, pending, t, dbOk) ==
    IF ~dbOk THEN [exc |-> Some("OperationalError"), tables |-> tables]
    ELSE session_flush(tables, pending, t)

(***************************************************************************)
(* services/link_service.py and services/category_service.py: each method  *)
(* up to its db.session.commit(). The outcome is the exception raised (the *)
(* except clauses have rolled back), not-found, or the changes the session *)
(* holds when commit() is reached.                                         *)
(***************************************************************************)
Raised(cls) == [exc |-> Some(cls), found |-> TRUE, pending |-> <<>>]

NotFound == [exc |-> None, found |-> FALSE, pending |-> <<>>]

Staged(ops) == [exc |-> None, found |-> TRUE, pending |-> ops]

\* LinkService.create_link(data)
create_link(tables, data) ==
    IF LinkSchemaErrors(data, FALSE) THEN Raised("ValueError")
    ELSE IF ~validate_url(Val(data.url)) THEN Raised("ValueError")
    ELSE IF TruthyInt(data.categoryId)
            /\ query_get(tables.categories, Val(data.categoryId)) = {}
    THEN Raised("ValueError")
    ELSE IF find_by_url(tables, Val(data.url)) # {} THEN Raised("ValueError")
    ELSE Staged(<<Op("add_link", 0, data, {}, 0)>>)

\* LinkService.update_link(link_id, data); link.update sets updated_at to
\* the time t of the call
update_link(tables, link_id, data, t) ==
    IF LinkSchemaErrors(data, TRUE) THEN Raised("ValueError")
    ELSE IF query_get(tables.links, link_id) = {} THEN NotFound
    ELSE LET link == CHOOSE l \in tables.links : l.id = link_id
         IN  IF ~IsNone(data.url) /\ ~validate_url(Val(data.url))
             THEN Raised("ValueError")
             ELSE IF TruthyInt(data.categoryId)
                     /\ query_get(tables.categories, Val(data.categoryId)) = {}
             THEN Raised("ValueError")
             ELSE IF /\ ~IsNone(data.url)
                     /\ Val(data.url) # link.url
                     /\ find_by_url(tables, Val(data.url)) # {}
             THEN Raised("ValueError")
             ELSE Staged(<<Op("update_link", link_id, data, {}, t)>>)

\* LinkService.delete_link(link_id)
delete_link(tables, link_id) ==
    IF query_get(tables.links, link_id) = {} THEN NotFound
    ELSE Staged(<<Op("delete_link", link_id, NoData, {}, 0)>>)

\* toggle_pin_link setting pinned to true
toggle_pin_link_SetTrue(tables, link_id, t) ==
    IF query_get(tables.links, link_id) = {} THEN NotFound
    ELSE Staged(<<Op("update_link", link_id,
                     Data(None, None, None, Some(TRUE), None), {}, t)>>)

\* LinkService.toggle_pin_link(link_id): Link.toggle_pin negates the pinned
\* it read
toggle_pin_link(tables, link_id, t) ==
    IF query_get(tables.links, link_id) = {} THEN NotFound
    ELSE LET link == CHOOSE l \in tables.links : l.id = link_id
         IN  Staged(<<Op("update_link", link_id,
                         Data(None, None, None, Some(~link.pinned), None),
                         {}, t)>>)

\* CategoryService.create_category(data)
create_category(tables, data) ==
    IF CategorySchemaErrors(data) THEN Raised("ValueError")
    ELSE IF find_by_name(tables, Val(data.name)) # {} THEN Raised("ValueError")
    ELSE Staged(<<Op("add_category", 0, data, {}, 0)>>)

\* delete_category with the links of the category collected for the
\* cascade before their category_id is cleared
delete_category_CascadeFirst(tables, category_id) ==
    IF query_get(tables.categories, category_id) = {} THEN NotFound
    ELSE Staged(<< Op("unlink", category_id, NoData, {}, 0),
                   Op("delete_category", category_id, NoData,
                      {l.id : l \in {k \in tables.links :
                                        k.category_id = Some(category_id)}},
                      0) >>)

\* CategoryService.delete_category(category_id): the UPDATE runs at once,
\* inside the transaction; session.delete(category) then loads
\* category.links for the delete cascade and finds what the UPDATE left
delete_category(tables, category_id) ==
    IF query_get(tables.categories, category_id) = {} THEN NotFound
    ELSE LET unlink == Op("unlink", category_id, NoData, {}, 0)
             after == ApplyOp(tables, unlink, 0).tables
         IN  Staged(<< unlink,
                       Op("delete_category", category_id, NoData,
                          {l.id : l \in {k \in after.links :
                                            k.category_id = Some(category_id)}},
                          0) >>)

\* the except clauses around commit(): the class that leaves the service
service_except(op, cls) ==
    IF op \in {"create_link", "update_link", "create_category"}
       /\ cls \in {"IntegrityError", "ValueError"}
    THEN "ValueError"
    ELSE "Exception"

(***************************************************************************)
(* api/links.py and api/categories.py: the views.                          *)
(***************************************************************************)
\* a request to the API: the view, the id in its path and its JSON body
Call(op, id, data) == [op |-> op, id |-> id, data |-> data]

\* the views that answer 400 to an empty body before calling the service
BodyViews == {"create_link", "update_link", "toggle_pin_link", "create_category"}

\* the views with an `except ValueError` clause
ValueErrorViews == {"create_link", "update_link", "create_category"}

\* the service method behind a view
service(tables, call, t) ==
    IF call.op = "create_link" THEN create_link(tables, call.data)
    ELSE IF call.op = "update_link" THEN update_link(tables, call.id, call.data, t)
    ELSE IF call.op = "delete_link" THEN delete_link(tables, call.id)
    ELSE IF call.op = "toggle_pin_link" THEN toggle_pin_link(tables, call.id, t)
    ELSE IF call.op = "create_category" THEN create_category(tables, call.data)
    ELSE delete_category(tables, call.id)

\* the status a view answers with, given what the service did
ViewStatus(op, exc, found) ==
    IF ~IsNone(exc)
    THEN IF Val(exc) = "ValueError" /\ op \in ValueErrorViews THEN 400 ELSE 500
    ELSE IF ~found THEN 404
    ELSE IF op \in {"create_link", "create_category"} THEN 201
    ELSE 200

\* a view up to the service's commit(): the status it answers with when it
\* ends before, else the changes the session holds
view(tables, call, t) ==
    IF call.op \in BodyViews /\ EmptyData(call.data)
    THEN [status |-> Some(400), pending |-> <<>>]
    ELSE LET out == service(tables, call, t)
         IN  IF ~IsNone(out.exc) \/ ~out.found
             THEN [status |-> Some(ViewStatus(call.op, out.exc, out.found)),
                   pending |-> <<>>]
             ELSE [status |-> None, pending |-> out.pending]

(***************************************************************************)
(* Requests to the links and categories API, each served in its own        *)
(* application context with its own db.session: the view runs up to the    *)
(* service's commit(), the commit follows, and the interceptor writes the  *)
(* audit row in the same session before the context is left.               *)
(***************************************************************************)
S_api_links == <<"/","a","p","i","/","l","i","n","k","s">>

S_api_categories == <<"/","a","p","i","/","c","a","t","e","g","o","r","i","e","s">>

\* the request the interceptor sees for a call: method, endpoint and path
ApiRequest(call) ==
    LET id == <<"/">> \o Decimal(call.id)
        headers == [k \in {H_UserAgent} |-> "v"]
    IN  IF call.op = "create_link" THEN Q_create(TRUE)
        ELSE IF call.op = "update_link"
        THEN Request(<<"P","U","T">>,
                     Some(<<"l","i","n","k","s",".","u","p","d","a","t","e","_",
                            "l","i","n","k">>),
                     S_api_links \o id, TRUE, TRUE, headers)
        ELSE IF call.op = "delete_link"
        THEN Request(<<"D","E","L","E","T","E">>,
                     Some(<<"l","i","n","k","s",".","d","e","l","e","t","e","_",
                            "l","i","n","k">>),
                     S_api_links \o id, FALSE, FALSE, headers)
        ELSE IF call.op = "toggle_pin_link"
        THEN Request(<<"P","A","T","C","H">>,
                     Some(<<"l","i","n","k","s",".","t","o","g","g","l","e","_",
                            "p","i","n","_","l","i","n","k">>),
                     S_api_links \o id \o <<"/","p","i","n">>, TRUE, TRUE, headers)
        ELSE IF call.op = "create_category"
        THEN Request(S_POST,
                     Some(<<"c","a","t","e","g","o","r","i","e","s",".","c","r","e",
                            "a","t","e","_","c","a","t","e","g","o","r","y">>),
                     S_api_categories, TRUE, TRUE, headers)
        ELSE Request(<<"D","E","L","E","T","E">>,
                     Some(<<"c","a","t","e","g","o","r","i","e","s",".","d","e","l",
                            "e","t","e","_","c","a","t","e","g","o","r","y">>),
                     S_api_categories \o id, FALSE, FALSE, headers)

\* jsonify({'success': ..., ...}), status: the views' error bodies hold
\* 'error' and no 'message'
ApiResponse(status) == Response(status, TRUE, J_nomessage)

\* POST /api/links
CreateLink(url, categoryId, pinned) ==
    Call("create_link", 0, Data(Some("t"), Some(url), categoryId, pinned, None))

\* PUT /api/links/<id>
UpdateLink(id, url, categoryId) ==
    Call("update_link", id, Data(None, url, categoryId, None, None))

\* PATCH /api/links/<id>/pin with the body {"pinned": ...}, or {}
TogglePin(id, pinned) ==
    Call("toggle_pin_link", id, Data(None, None, None, pinned, None))

\* POST /api/categories
CreateCategory(name) ==
    Call("create_category", 0, Data(None, None, None, None, Some(name)))

\* DELETE /api/categories/<id>
DeleteCategory(id) == Call("delete_category", id, NoData)

\* DELETE /api/links/<id>
DeleteLink(id) == Call("delete_link", id, NoData)

\* the committed content of the database
Tables == [categories |-> categories, links |-> links]

\* a request arrives: before_request stores the start times on flask.g
ApiArrives(c, inputs) ==
    /\ calls < MaxCalls
    /\ job[c].pc = "idle"
    /\ \E call \in inputs :
          job' = [job EXCEPT ![c] =
                    [IdleJob EXCEPT !.pc = "view", !.call = Some(call),
                                    !.g = Some(before_request(now))]]
    /\ calls' = calls + 1
    /\ UNCHANGED <<store, now, ctx, last, categories, links>>

\* the view runs up to the service's db.session.commit()
ApiView(c) ==
    /\ job[c].pc = "view"
    /\ LET out == view(Tables, Val(job[c].call), now)
       IN  job' = [job EXCEPT ![c] =
                     IF ~IsNone(out.status)
                     THEN [@ EXCEPT !.pc = "responded",
                                    !.response = Some(ApiResponse(Val(out.status)))]
                     ELSE [@ EXCEPT !.pc = "commit", !.pending = out.pending]]
    /\ UNCHANGED <<store, now, ctx, last, calls, categories, links>>

\* db.session.commit() of the service, its except clauses (which roll
\* back) and the rest of the view
ApiCommit(c) ==
    /\ job[c].pc = "commit"
    /\ \E dbOk \in BOOLEAN :
          LET op == Val(job[c].call).op
              r == session_commit(Tables, job[c].pending, now, dbOk)
              exc == IF IsNone(r.exc) THEN None
                     ELSE Some(service_except(op, Val(r.exc)))
          IN  /\ categories' = r.tables.categories
              /\ links' = r.tables.links
              /\ job' = [job EXCEPT ![c] =
                           [@ EXCEPT !.pc = "responded", !.pending = <<>>,
                                     !.response =
                                        Some(ApiResponse(ViewStatus(op, exc, TRUE)))]]
    /\ UNCHANGED <<store, now, ctx, last, calls>>

\* the worker is told to exit while the view runs: SystemExit passes every
\* `except Exception`, so nothing rolls the session back
ApiAborts(c) ==
    /\ job[c].pc \in {"view", "commit"}
    /\ \E e \in Aborts :
          job' = [job EXCEPT ![c] = [@ EXCEPT !.pc = "aborted",
                                              !.exception = Some(e)]]
    /\ UNCHANGED <<store, now, ctx, last, calls, categories, links>>

\* after_request reading start times kept in one place for all requests
\* (those of any request under way)
ApiAfterRequest_SharedStart(c) ==
    /\ job[c].pc = "responded"
    /\ \E dbOk \in BOOLEAN, d \in {x \in Clients : ~IsNone(job[x].g)} :
          LET s == session_commit(Tables, job[c].pending, now, dbOk)
              out == after_request(job[d].g, ApiRequest(Val(job[c].call)),
                                   Val(job[c].response), store, now,
                                   IsNone(s.exc))
              committed == IF IsNone(out.row) THEN Tables ELSE s.tables
          IN  /\ store' = out.rows
              /\ categories' = committed.categories
              /\ links' = committed.links
    /\ job' = [job EXCEPT ![c] = IdleJob]
    /\ UNCHANGED <<now, ctx, last, calls>>

\* after_request writes the audit row through db.session, the session of
\* the view: log_error's commit() flushes what the session still holds and
\* its rollback() drops it; leaving the context removes the session
ApiAfterRequest(c) ==
    /\ job[c].pc = "responded"
    /\ \E dbOk \in BOOLEAN :
          LET s == session_commit(Tables, job[c].pending, now, dbOk)
              out == after_request(job[c].g, ApiRequest(Val(job[c].call)),
                                   Val(job[c].response), store, now,
                                   IsNone(s.exc))
              committed == IF IsNone(out.row) THEN Tables ELSE s.tables
          IN  /\ store' = out.rows
              /\ categories' = committed.categories
              /\ links' = committed.links
    /\ job' = [job EXCEPT ![c] = IdleJob]
    /\ UNCHANGED <<now, ctx, last, calls>>

\* teardown_appcontext(exception) of an aborted request writes its audit
\* row the same way; it runs before the session is removed, as the
\* interceptor is initialised after db.init_app
ApiTeardown(c) ==
    /\ job[c].pc = "aborted"
    /\ \E dbOk \in BOOLEAN :
          LET s == session_commit(Tables, job[c].pending, now, dbOk)
              out == teardown_appcontext(job[c].g,
                                         Some(ApiRequest(Val(job[c].call))),
                                         job[c].exception, store, now,
                                         IsNone(s.exc))
              committed == IF IsNone(out.row) THEN Tables ELSE s.tables
          IN  /\ store' = out.rows
              /\ categories' = committed.categories
              /\ links' = committed.links
    /\ job' = [job EXCEPT ![c] = IdleJob]
    /\ UNCHANGED <<now, ctx, last, calls>>

(***************************************************************************)
(* Pinning: one client creating links and toggling their pins.             *)
(***************************************************************************)
\* links created unpinned and pinned, and pins toggled on ids that exist
\* and do not, with each body
PinCalls ==
    { CreateLink(U_a, None, None), CreateLink(U_b, None, Some(TRUE)) }
    \cup {TogglePin(id, pinned) :
            id \in {1, MaxCalls + 1}, pinned \in {None, Some(TRUE), Some(FALSE)}}

NextPin ==
    \/ ApiArrives(1, PinCalls)
    \/ ApiView(1)
    \/ ApiCommit(1)
    \/ ApiAfterRequest(1)

SpecPin == Init /\ [][NextPin]_vars

\* the row with an id
RowOf(rows, id) == CHOOSE r \in rows : r.id = id

\* the tables after the pin of link id was toggled and committed
Toggled(tables, id, t) ==
    session_commit(tables, toggle_pin_link(tables, id, t).pending, t, TRUE).tables

\* the step of client c is the view of a pin request ending or reaching
\* its commit
PinViewStep(c) ==
    /\ job[c].pc = "view"
    /\ job'[c].pc \in {"commit", "responded"}
    /\ Val(job[c].call).op = "toggle_pin_link"

\* the step of client c is the commit of a pin request
PinCommitStep(c) ==
    /\ job[c].pc = "commit"
    /\ job'[c].pc = "responded"
    /\ Val(job[c].call).op = "toggle_pin_link"

\* a committed pin request answered 200 has negated pinned of its link and
\* left the other links as they were; one answered otherwise changed none
PinCommitted(c) ==
    LET id == Val(job[c].call).id
    IN  IF Val(job'[c].response).status_code = 200
        THEN /\ query_get(links, id) # {}
             /\ query_get(links', id) # {}
             /\ RowOf(links', id) =
                   [ RowOf(links, id) EXCEPT !.pinned = ~@,
                                             !.updated_at = RowOf(links', id).updated_at ]
             /\ {l \in links' : l.id # id} = {l \in links : l.id # id}
        ELSE links' = links

\* toggling the pin of any stored link twice gives back its pinned
TwiceRestores ==
    \A l \in links :
        LET once == Toggled(Tables, l.id, now)
            twice == Toggled(once, l.id, now)
        IN  /\ RowOf(once.links, l.id).pinned = ~l.pinned
            /\ RowOf(twice.links, l.id).pinned = l.pinned

run_service(tables, call, t, dbOk) ==
    LET out == service(tables, call, t)
    IN  IF ~IsNone(out.exc) \/ ~out.found
        THEN [tables |-> tables, exc |-> out.exc, found |-> out.found]
        ELSE LET r == session_commit(tables, out.pending, t, dbOk)
             IN  [ tables |-> r.tables,
                   exc |-> IF IsNone(r.exc) THEN None
                           ELSE Some(service_except(call.op, Val(r.exc))),
                   found |-> TRUE ]

\* LinkService.<op>(...) or CategoryService.<op>(...) called directly
ServiceCall(inputs) ==
    /\ calls < MaxCalls
    /\ \E call \in inputs, dbOk \in BOOLEAN :
          LET out == run_service(Tables, call, now, dbOk)
          IN  /\ categories' = out.tables.categories
              /\ links' = out.tables.links
              /\ last' = [op |-> call.op, args |-> call, at |-> now,
                          exc |-> out.exc, found |-> out.found]
    /\ calls' = calls + 1
    /\ UNCHANGED <<store, now, ctx, job>>

CategoryCalls ==
    { CreateLink(U_a, Some(1), None), CreateLink(U_b, Some(2), Some(TRUE)),
      CreateLink(U_b, None, None), CreateCategory("Docs"),
      UpdateLink(1, None, Some(2)),
      DeleteCategory(1), DeleteCategory(2), DeleteCategory(MaxCalls + 6) }

NextCategories ==
    \/ Tick
    \/ ServiceCall(CategoryCalls)

SpecCategories == Init /\ [][NextCategories]_vars

\* the step is a delete_category call that returns True
DeleteCategoryStep ==
    /\ calls' = calls + 1
    /\ last'.op = "delete_category"
    /\ IsNone(last'.exc)
    /\ last'.found

\* C26: delete_category(c) removes category c and sets category_id to null
\* on every link that was in c; no link is deleted, and every other field
\* of every link is as it was.
C26_DeleteCategoryFrame ==
    [][ DeleteCategoryStep =>
          LET id == last'.args.id
          IN  /\ query_get(categories, id) # {}
              /\ categories' = {k \in categories : k.id # id}
              /\ Cardinality(links') = Cardinality(links)
              /\ links' = { IF l.category_id = Some(id)
                            THEN [l EXCEPT !.category_id = None]
                            ELSE l : l \in links }
      ]_vars

\* C26 as amended: of the links that were in c, updated_at is set as well
\* (to the time of the UPDATE); every other field of every link is as it
\* was.
C26_DeleteCategoryFrameAmended ==
    [][ DeleteCategoryStep =>
          LET id == last'.args.id
          IN  /\ query_get(categories, id) # {}
              /\ categories' = {k \in categories : k.id # id}
              /\ Cardinality(links') = Cardinality(links)
              /\ links' = { IF l.category_id = Some(id)
                            THEN [l EXCEPT !.category_id = None,
                                           !.updated_at = now]
                            ELSE l : l \in links }
      ]_vars

\* C26 witness: category 1 deleted with one link in it and one link in
\* category 2; both links are there, the first without a category
C26_Witness ==
    /\ last.op = "delete_category"
    /\ last.args = DeleteCategory(1)
    /\ IsNone(last.exc)
    /\ last.found
    /\ categories = {Category(2, "Personal")}
    /\ Cardinality(links) = 2
    /\ \E l \in links : l.url = U_a /\ l.category_id = None
    /\ \E l \in links : l.url = U_b /\ l.category_id = Some(2)

(***************************************************************************)
(* The audit table under every operation that reaches it: the service      *)
(* methods called directly, the routes of /api/errors, and requests to     *)
(* the links API logged by the interceptor; the database may fail in each. *)
(***************************************************************************)
\* a complete call of log_error and one without a status code
AuditLogInputs ==
    { LogArgs(S_get, S_api_test, 200, None), LogArgs(S_get, S_api_test, 0, None) }

\* get_errors(page=1, per_page=20) without filters
AuditQueryArgs == QueryArgs(1, PerPageDefault, None, None, None, None, None, None)

\* a query string without parameters
AuditListParams == ListParams(None, None, None, None, None, None)

AuditRangeParams == [start_date |-> None, end_date |-> None]

AuditExportParams == ExportParams("json", None, None, None)

\* delete_old_errors(days=1), and DELETE /api/errors/cleanup?days=1
AuditDays == {1}

AuditDaysParams == {Some(1)}

\* a method of ErrorService called directly
AuditService ==
    /\ calls < MaxCalls
    /\ \E dbOk \in BOOLEAN :
          \/ \E a \in AuditLogInputs :
                LET out == log_error(store, a, now, dbOk)
                IN  /\ store' = out.rows
                    /\ last' = [op |-> "log_error", args |-> a, db |-> dbOk, exc |-> out.exc, ret |-> out.ret]
          \/ \E days \in AuditDays :
                LET out == delete_old_errors(store, days, now, dbOk)
                IN  /\ store' = out.rows
                    /\ last' = [op |-> "delete_old_errors", args |-> days,
                                db |-> dbOk, exc |-> out.exc, ret |-> out.ret]
          \/ \E out \in get_errors(store, AuditQueryArgs, dbOk) :
                /\ store' = store
                /\ last' = [op |-> "get_errors", args |-> AuditQueryArgs,
                            db |-> dbOk, exc |-> out.exc, ret |-> out.ret]
          \/ LET out == get_error_statistics(store, None, None, dbOk)
             IN  /\ store' = store
                 /\ last' = [op |-> "get_error_statistics",
                             args |-> <<None, None>>, db |-> dbOk,
                             exc |-> out.exc, ret |-> out.ret]
    /\ calls' = calls + 1
    /\ UNCHANGED <<now, ctx>>
    /\ UNCHANGED catalog

\* a request to a route of /api/errors
AuditRoute ==
    /\ calls < MaxCalls
    /\ \E dbOk \in BOOLEAN :
          \/ \E response \in route_get_errors(store, AuditListParams, dbOk) :
                /\ store' = store
                /\ last' = [op |-> "GET /api/errors", args |-> AuditListParams,
                            db |-> dbOk, response |-> response]
          \/ /\ store' = store
             /\ last' = [op |-> "GET /api/errors/statistics",
                         args |-> AuditRangeParams, db |-> dbOk,
                         response |-> route_get_error_statistics(
                                          store, AuditRangeParams, dbOk)]
          \/ \E response \in route_export_errors(store, AuditExportParams, dbOk) :
                /\ store' = store
                /\ last' = [op |-> "GET /api/errors/export",
                            args |-> AuditExportParams, db |-> dbOk,
                            response |-> response]
          \/ \E days \in AuditDaysParams :
                LET out == route_cleanup_old_errors(store, days, now, dbOk)
                IN  /\ store' = out.rows
                    /\ last' = [op |-> "DELETE /api/errors/cleanup",
                                args |-> days, db |-> dbOk,
                                response |-> out.response]
    /\ calls' = calls + 1
    /\ UNCHANGED <<now, ctx>>
    /\ UNCHANGED catalog

\* POST /api/links: a link created, and refused as a duplicate afterwards
AuditCalls == { CreateLink(U_a, None, None) }

NextAudit ==
    \/ Tick
    \/ AuditService
    \/ AuditRoute
    \/ ApiArrives(1, AuditCalls)
    \/ ApiView(1)
    \/ ApiCommit(1)
    \/ ApiAfterRequest(1)

SpecAudit == Init /\ [][NextAudit]_vars

\* the step is retention cleanup, called directly or through its route
CleanupStep ==
    /\ calls' = calls + 1
    /\ job' = job
    /\ last'.op \in {"delete_old_errors", "DELETE /api/errors/cleanup"}

\* C23: audit records are append-only: once a record is inserted no
\* operation (logging, listing, statistics, export, CRUD requests) changes
\* any of its fields, and only retention cleanup removes a record.
C23_AppendOnly ==
    [][ \A r \in store :
           \/ r \in store'
           \/ CleanupStep /\ \A x \in store' : x.id # r.id
      ]_vars

\* C23 witness: of two records logged at different times, one of them by
\* the interceptor, cleanup has removed the older; the newer is there
C23_Witness ==
    /\ last.op = "DELETE /api/errors/cleanup"
    /\ last.response.status_code = 200
    /\ calls = 3
    /\ \E r \in store : /\ r.id = 2
                         /\ r.request_time = 1
                         /\ r.method = S_POST
                         /\ r.status_code = 201
    /\ \A r \in store : r.id # 1


\* the step is a direct call of a method of ErrorService
ServiceStep(op) ==
    /\ calls' = calls + 1
    /\ job' = job
    /\ last'.op = op

\* the route answered 500 with success = false
Failed500(response) == response.status_code = 500 /\ ~response.success

\* C24: a storage failure inside log_error, get_errors,
\* get_error_statistics or delete_old_errors reaches the caller as a
\* DatabaseError (HTTP 500 with success = false on the query, statistics
\* and cleanup endpoints) and is never swallowed; after a failed insert or
\* delete the store holds the same records as before the call.
C24_StorageFailureSurfaces ==
    [][ /\ ServiceStep("log_error") /\ ~last'.db
           /\ last'.args.method # <<>> /\ last'.args.endpoint # <<>>
           /\ last'.args.status_code # 0
           => last'.exc = Some("DatabaseError") /\ store' = store
        /\ ServiceStep("log_error") /\ IsNone(last'.exc)
           => Val(last'.ret) \in store' /\ Val(last'.ret) \notin store
        /\ ServiceStep("delete_old_errors") /\ ~last'.db
           => last'.exc = Some("DatabaseError") /\ store' = store
        /\ ServiceStep("get_errors") /\ ~last'.db
           => last'.exc = Some("DatabaseError") /\ store' = store
        /\ ServiceStep("get_error_statistics") /\ ~last'.db
           => last'.exc = Some("DatabaseError") /\ store' = store
        /\ /\ \/ ServiceStep("GET /api/errors")
              \/ ServiceStep("GET /api/errors/statistics")
              \/ ServiceStep("DELETE /api/errors/cleanup")
           /\ ~last'.db
           => Failed500(last'.response) /\ store' = store
      ]_vars

\* C24 witness: with two records stored, a cleanup request that would
\* remove one of them met a failing database; it answered 500 and both
\* records are there
C24_Witness ==
    /\ last.op = "DELETE /api/errors/cleanup"
    /\ ~last.db
    /\ Failed500(last.response)
    /\ now = 2
    /\ Cardinality(store) = 2
    /\ \E r \in store : r.request_time = 0

(***************************************************************************)
(* Requests handled at the same time: each client's request has its own    *)
(* request context (flask.g), and the phases of different requests         *)
(* interleave while time passes.                                           *)
(***************************************************************************)
\* DELETE /api/links/<id> for an id that is not there: answered 404 by the
\* view, nothing to commit
OverlapCalls == { DeleteLink(MaxCalls + 1) }

NextOverlap ==
    \/ Tick
    \/ \E c \in Clients : ApiArrives(c, OverlapCalls)
    \/ \E c \in Clients : ApiView(c)
    \/ \E c \in Clients : ApiAfterRequest(c)

SpecOverlap == Init /\ [][NextOverlap]_vars

\* the step is after_request of client c's request
AfterRequestStep(c) ==
    /\ job[c].pc = "responded"
    /\ job'[c].pc = "idle"

\* C28: with the before_request and after_request phases of several
\* requests interleaved, each persisted record's request_time and
\* duration_ms come from the start timestamps captured for that same
\* request.
C28_OwnStartTimes ==
    [][ \A c \in Clients :
          AfterRequestStep(c) =>
             \A r \in store' \ store :
                /\ r.request_time = Val(job[c].g).request_start_datetime
                /\ r.duration_ms =
                      Some(TruncDiv(now - Val(job[c].g).request_start_time,
                                    TicksPerMs))
      ]_vars

\* C28 witness: a request that arrived at 0 was overtaken by one that
\* arrived at 1; the later one was logged first, the earlier one at 2 with
\* its own start time and a duration of one millisecond
C28_Witness ==
    /\ now = 2
    /\ \E r \in store : r.id = 1 /\ r.request_time = 1 /\ r.duration_ms = Some(0)
    /\ \E r \in store : /\ r.id = 2
                        /\ r.request_time = 0
                        /\ r.response_time = Some(2)
                        /\ r.duration_ms = Some(1)

(***************************************************************************)
(* Two clients sending requests to the links and categories API at the     *)
(* same time: the view of one request runs between the view and the        *)
(* commit of the other.  The tables are those of the default database,     *)
(* SQLite, which does not enforce foreign keys unless told to.             *)
(***************************************************************************)
RaceCalls ==
    { CreateLink(U_a, Some(1), None), CreateLink(U_b, Some(0), None),
      UpdateLink(2, Some(U_a), None), DeleteCategory(1) }

NextRace ==
    \/ \E c \in Clients : ApiArrives(c, RaceCalls)
    \/ \E c \in Clients : ApiView(c)
    \/ \E c \in Clients : ApiCommit(c)
    \/ \E c \in Clients : ApiAfterRequest(c)

SpecRace == Init /\ [][NextRace]_vars

\* C25: no two links ever share a URL, after any sequence of create and
\* update requests, including two requests for the same URL whose check
\* and insert steps interleave.
C25_UniqueUrls ==
    \A l1 \in links, l2 \in links : l1.url = l2.url => l1 = l2

\* C29: after any sequence and interleaving of link create/update and
\* category create/delete requests, every link's category_id is null or
\* the id of a category that exists.
C29_CategoryExists ==
    \A l \in links :
       IsNone(l.category_id) \/ query_get(categories, Val(l.category_id)) # {}

(***************************************************************************)
(* The session shared by a view and the interceptor: requests that         *)
(* complete, and requests whose worker is told to exit while the view      *)
(* runs, leaving what the view staged in the session.                      *)
(***************************************************************************)
\* a link created, a URL without a scheme refused, a category deleted
SessionCalls ==
    { CreateLink(U_a, Some(1), None), CreateLink(U_bad, None, None),
      DeleteCategory(1) }

NextSession ==
    \/ ApiArrives(1, SessionCalls)
    \/ ApiView(1)
    \/ ApiCommit(1)
    \/ ApiAborts(1)
    \/ ApiAfterRequest(1)
    \/ ApiTeardown(1)

SpecSession == Init /\ [][NextSession]_vars

\* the step is the audit write of client c's request, by after_request or
\* by teardown_appcontext
AuditWriteStep(c) ==
    /\ job[c].pc \in {"responded", "aborted"}
    /\ job'[c].pc = "idle"

=====
